---- MODULE Spec2Model ----
(***************************************************************************)
(* A model of the forge agent core: the Context message log                *)
(* (forge_domain/src/context.rs), tool results                             *)
(* (forge_domain/src/tool_result.rs), the fs_patch engine                  *)
(* (forge_app/src/tools/patch/apply.rs), the ConcurrentWorkflow store and  *)
(* its execute stream (forge_domain/src/workflow.rs), and the agent-turn   *)
(* loop of the orchestrator.                                               *)
(*                                                                         *)
(* Option<T> is modelled as a sequence of length 0 (None) or 1 (Some(x)).  *)
(* Vec<T> and String are sequences / TLA+ strings.                         *)
(***************************************************************************)
EXTENDS Naturals, Integers, Sequences, FiniteSets, TLC

VARIABLES
    \* ---- Context operations (context.rs) ----
    messages,     \* Context.messages of the context under construction
    last,         \* the last set_first_system_message call: its argument and pre-state
    derived       \* history: every tool result so far came from a record whose
                  \* result was derived from its own call (ToolResult::from(call))

ctxVars == <<messages, last, derived>>

VARIABLES
    \* ---- fs_patch (tools/patch/apply.rs) ----
    old_content,  \* the content read from the file, a UTF-8 byte string
    blocks,       \* the parsed PatchBlocks of the call
    modified,     \* None, or Some(the content apply_patches returned)
    reapplied     \* None, or Some(what apply_patches returned for that content and the same blocks)

patchVars == <<old_content, blocks, modified, reapplied>>

VARIABLES
    \* ---- ConcurrentWorkflow (workflow.rs) ----
    workflow,     \* the Workflow behind the lock: its state and variables maps
    lock,         \* the RwLock: the task holding the write guard, the tasks holding read guards
    tasks,        \* each caller task: where it is in its call, the call, what it returned
    latest        \* history: per key, the value of the last write in the order the writes took effect

storeVars == <<workflow, lock, tasks, latest>>

VARIABLES
    \* ---- ConcurrentWorkflow::execute and the orchestrator's agent-turn loop ----
    config,       \* fixed per run: tool_supported, whether A hands over to B (wait), the provider
    current,      \* the agent whose turn loop the orchestrator task is running
    pc,           \* per agent: Idle, Prompting, Streaming, Dispatching, Reduced, Done, Failed
    iterations,   \* per agent: provider calls made in its turn
    contexts,     \* per agent: the messages of its Context
    response,     \* the provider response being handled: text, tool calls, tool results
    rounds,       \* responses with tool calls given so far in this run
    error,        \* the fatal error of the run, if any
    outcome,      \* what Orchestrator::execute returned: None, Ok or Err
    exec,         \* the task spawned by execute: running or finished
    chan,         \* the items sent on the MpscStream and not yet received
    received,     \* history: a summary of the items the caller's stream has yielded
    closed        \* the caller's stream has ended

orchVars == <<config, current, pc, iterations, contexts, response, rounds, error,
              outcome, exec, chan, received, closed>>

VARIABLES
    \* ---- tool calls on files (fs_patch, patch_json, fs_read, fs_search) ----
    disk,         \* the filesystem: per path, None (no file) or Some(content)
    last_call     \* None, or Some(the finished tool call: its input, the filesystem
                  \* before it, the filesystem operations it made, what it returned)

toolVars == <<disk, last_call>>

VARIABLES
    \* ---- attachments (forge_app/src/attachment.rs) ----
    files,        \* the FileReadService: per known path, None (unreadable) or Some(content)
    typed,        \* the words the user typed, in order: plain words and file mentions
    chat,         \* the message handed to attachments(): the words joined by spaces
    attached      \* None, or Some(what attachments() returned)

attVars == <<files, typed, chat, attached>>

VARIABLES
    \* ---- the UI's conversation state (forge_main/src/ui.rs) ----
    ui_state,     \* UIState: conversation_id, is_first, mode
    cli,          \* fixed per run: whether --conversation names a file, the workflow's mode
    sent,         \* history: the events handed to api.chat, in order
    epoch,        \* history: the conversations init_conversation has opened so far
    held,         \* history: per conversation opened, its id, what opened it (new, mode, command),
                  \* whether it was created, whether a reset came since the one before
    reset_since   \* history: a reset (/new, /act, /plan) was run since the last opening

uiVars == <<ui_state, cli, sent, epoch, held, reset_since>>

VARIABLES
    \* ---- ProviderService (forge_app/src/service/provider.rs) ----
    pcache,       \* the cache: per model id followed here, None or Some(its Parameters)
    others,       \* the number of cached entries of other model ids
    ptasks,       \* per task: its call of the service and what it returned
    pstats        \* history, per model id: the Parameters of its first successful call,
                  \* whether the upstream was asked again after it, whether its entry
                  \* was evicted

provVars == <<pcache, others, ptasks, pstats>>

VARIABLES
    \* ---- the console (forge_main/src/model.rs, input.rs) ----
    console_line, \* the text the user enters at the prompt
    console_cmd   \* None, or Some(what Command::parse made of it)

consoleVars == <<console_line, console_cmd>>

VARIABLES
    \* ---- the configuration (forge_main/src/config.rs) ----
    config_values, \* Config::values: per ConfigKey, None or Some(its ConfigValue)
    config_call,   \* None, or Some(the last insert: its key, its value, what it
                   \* returned, whether it left the values as they were)
    config_latest  \* history: per key string, the value text of the last insert that
                   \* returned Ok

configVars == <<config_values, config_call, config_latest>>

VARIABLES
    \* ---- Workflow files (forge_domain/src/workflow.rs) ----
    serde_wf,     \* None, or Some(the Workflow that was serialized)
    serde_text,   \* None, or Some(its serialized form)
    serde_back    \* None, or Some(what loading the serialized form gave)

serdeVars == <<serde_wf, serde_text, serde_back>>

mainVars == <<provVars, consoleVars, configVars, serdeVars>>

extVars == <<toolVars, attVars, uiVars, mainVars>>

vars == <<ctxVars, patchVars, storeVars, orchVars, extVars>>

(***************************************************************************)
(* Bounds of the model                                                     *)
(***************************************************************************)
MaxMessages == 3      \* longest context built by the Context specification
MaxContentLen == 3    \* characters of the file content handed to apply_patches
MaxSearchLen == 2     \* characters of a block's search text
MaxBlocks == 2        \* blocks of one fs_patch call
MaxCalls == 2         \* calls each task makes on the ConcurrentWorkflow
MaxRounds == 1        \* provider responses with tool calls in one run of the free provider
ChannelCapacity == 1  \* items the stream's channel buffers
MaxFileLen == 2       \* characters of a file on the modelled filesystem
MaxToolBlocks == 2    \* blocks or replacements in one patch tool call
MaxWords == 2         \* words of the message handed to attachments()
MaxEvents == 3        \* events the UI hands to api.chat in one run
MaxConversations == 2 \* conversations the UI opens in one run
MaxLineWords == 2     \* most words in a line entered at the console

(***************************************************************************)
(* Option                                                                  *)
(***************************************************************************)
None == <<>>
Some(x) == <<x>>
IsSome(o) == Len(o) = 1
Unwrap(o) == o[1]

(***************************************************************************)
(* Small value universes the inputs are drawn from                         *)
(***************************************************************************)
Contents == {"a", "b"}
CallIds == {"c1", "c2"}
ToolNames == {"t"}
Urls == {"u"}

(***************************************************************************)
(* forge_domain: ToolCallFull, ToolResult                                  *)
(***************************************************************************)
ToolCallFull(name, call_id) == [name |-> name, call_id |-> call_id, arguments |-> "{}"]

Generic(content) == [type |-> "Generic", content |-> content]

\* ToolResult::new
ToolResult_new(name) ==
    [name |-> name, call_id |-> None, data |-> Generic(""), is_error |-> FALSE]

\* impl From<ToolCallFull> for ToolResult
ToolResult_from(call) ==
    [name |-> call.name, call_id |-> call.call_id, data |-> Generic(""), is_error |-> FALSE]

\* ToolResult::success
success(result, data) == [result EXCEPT !.data = data, !.is_error = FALSE]

RECURSIVE CauseLines(_)
CauseLines(chain) ==
    IF chain = <<>> THEN ""
    ELSE ("Caused by: " \o Head(chain) \o "\n") \o CauseLines(Tail(chain))

\* A mutant of failure: the error flag is not raised.
failure_flag_lost(result, chain) ==
    [result EXCEPT !.data = Generic("\nERROR:\n" \o CauseLines(chain)),
                   !.is_error = FALSE]

\* ToolResult::failure; err.chain() is the sequence of causes, outermost first
failure(result, chain) ==
    [result EXCEPT !.data = Generic("\nERROR:\n" \o CauseLines(chain)),
                   !.is_error = TRUE]

\* ToolResult::content (the Generic variant is the one the tools of the model use)
content(result) == result.data.content

\* impl Display for ToolResult; the front matter of a Generic datum is
\* "---\n" yaml "---\n" body, with the yaml naming the type and the content
to_front_matter(data) ==
    "---\ntype: " \o data.type \o "\ncontent: " \o data.content \o "\n---\n" \o data.content

ToolResult_to_string(result) ==
    "<forge_tool_result><forge_tool_name>" \o result.name \o "</forge_tool_name>"
    \o (IF result.is_error
        THEN "<error><![CDATA[" \o to_front_matter(result.data) \o "]]></error>"
        ELSE "<success><![CDATA[" \o to_front_matter(result.data) \o "]]></success>")
    \o "</forge_tool_result>"

\* ToolCallRecord { tool_call, tool_result } and its Display
ToolCallRecord(call, result) == [tool_call |-> call, tool_result |-> result]

ToolCallRecord_to_string(record) ==
    "<forge_tool_call name=\"" \o record.tool_call.name \o "\">"
    \o ToolResult_to_string(record.tool_result) \o "</forge_tool_call>"

(***************************************************************************)
(* forge_domain/src/context.rs: ContextMessage                             *)
(***************************************************************************)
ContentMessage(role, text, tool_calls) ==
    [kind |-> "ContentMessage", role |-> role, content |-> text, tool_calls |-> tool_calls]

\* ContextMessage::user
user(text) == ContentMessage("User", text, None)

\* ContextMessage::system
system(text) == ContentMessage("System", text, None)

\* ContextMessage::assistant: an empty list of calls is stored as None
assistant(text, tool_calls) ==
    ContentMessage("Assistant", text,
        IF IsSome(tool_calls) /\ Unwrap(tool_calls) # <<>> THEN tool_calls ELSE None)

\* ContextMessage::tool_result
tool_result(result) == [kind |-> "ToolMessage", result |-> result]

\* ContextMessage::Image
Image(url) == [kind |-> "Image", url |-> url]

\* ContextMessage::has_role
has_role(m, role) ==
    CASE m.kind = "ContentMessage" -> m.role = role
      [] m.kind = "ToolMessage" -> FALSE
      [] m.kind = "Image" -> role = "User"

(***************************************************************************)
(* forge_domain/src/context.rs: Context (its messages)                     *)
(***************************************************************************)
\* Context::add_url
add_url(msgs, url) == Append(msgs, Image(url))

\* Context::add_message
add_message(msgs, m) == Append(msgs, m)

\* Context::add_tool_results
add_tool_results(msgs, results) ==
    IF results # <<>>
    THEN msgs \o [i \in 1..Len(results) |-> tool_result(results[i])]
    ELSE msgs

\* A mutant of set_first_system_message: the system message is pushed at the end.
set_first_system_message_pushes(msgs, text) == add_message(msgs, system(text))

\* Context::set_first_system_message
set_first_system_message(msgs, text) ==
    IF msgs = <<>>
    THEN add_message(msgs, system(text))
    ELSE IF msgs[1].kind = "ContentMessage"
         THEN IF msgs[1].role = "System"
              THEN [msgs EXCEPT ![1].content = text]
              ELSE <<system(text)>> \o msgs
         ELSE msgs

\* tool_records.iter().map(|record| record.tool_call.clone()).collect()
RecordCalls(tool_records) == [i \in 1..Len(tool_records) |-> tool_records[i].tool_call]

\* tool_records.iter().map(|record| record.tool_result.clone()).collect()
RecordResults(tool_records) == [i \in 1..Len(tool_records) |-> tool_records[i].tool_result]

RECURSIVE JoinRecords(_)
JoinRecords(records) ==
    IF records = <<>> THEN ""
    ELSE IF Len(records) = 1 THEN ToolCallRecord_to_string(records[1])
    ELSE JoinRecords(SubSeq(records, 1, Len(records) - 1))
         \o "\n\n" \o ToolCallRecord_to_string(records[Len(records)])

\* A mutant of append_message: the results are appended last first.
append_message_reverses_results(msgs, text, tool_records, tool_supported) ==
    LET n == Len(tool_records)
        reversed == [i \in 1..n |-> tool_records[n + 1 - i]]
    IN  IF tool_supported
        THEN add_tool_results(
                 add_message(msgs, assistant(text, Some(RecordCalls(tool_records)))),
                 RecordResults(reversed))
        ELSE LET m1 == add_message(msgs, assistant(text, None))
             IN  IF tool_records = <<>> THEN m1
                 ELSE add_message(m1, user(JoinRecords(reversed)))

\* A mutant of append_message: the results are appended before the assistant
\* message that carries their calls.
append_message_results_first(msgs, text, tool_records, tool_supported) ==
    IF tool_supported
    THEN add_message(
             add_tool_results(msgs, RecordResults(tool_records)),
             assistant(text, Some(RecordCalls(tool_records))))
    ELSE add_message(msgs, assistant(text, None))

\* Context::append_message
append_message(msgs, text, tool_records, tool_supported) ==
    IF tool_supported
    THEN add_tool_results(
             add_message(msgs, assistant(text, Some(RecordCalls(tool_records)))),
             RecordResults(tool_records))
    ELSE LET m1 == add_message(msgs, assistant(text, None))
         IN  IF tool_records = <<>> THEN m1
             ELSE add_message(m1, user(JoinRecords(tool_records)))

(***************************************************************************)
(* The Context specification: a context built from Context::default() by   *)
(* any sequence of its operations.                                         *)
(***************************************************************************)
Calls == {ToolCallFull(n, Some(id)) : n \in ToolNames, id \in CallIds}
          \cup {ToolCallFull(n, None) : n \in ToolNames}

CallLists == {<<>>} \cup {<<c>> : c \in Calls}
             \cup {<<ToolCallFull("t", Some("c1")), ToolCallFull("t", Some("c2"))>>}

\* The results a tool run can leave for a call: derived from the call.
DerivedResults(call) ==
    { success(ToolResult_from(call), Generic("a")),
      failure(ToolResult_from(call), <<"e">>) }

\* Results built by hand, for any call id.
Results == UNION {DerivedResults(c) : c \in Calls}

ResultLists == {<<r>> : r \in {success(ToolResult_from(c), Generic("a")) : c \in Calls}}
               \cup {<<>>}

\* Records whose result is derived from the record's own call.
DerivedRecordLists ==
    UNION { {[i \in 1..Len(cs) |-> ToolCallRecord(cs[i], rs[i])] :
                 rs \in {x \in [1..Len(cs) -> Results] :
                             \A i \in 1..Len(cs) : x[i] \in DerivedResults(cs[i])}} :
            cs \in CallLists }

\* Records whose result names another call than the record's own.
ForeignRecordLists ==
    { <<ToolCallRecord(ToolCallFull("t", Some("c1")),
                       success(ToolResult_from(ToolCallFull("t", Some("c2"))), Generic("a")))>> }

IsDerived(records) ==
    \A i \in 1..Len(records) :
        records[i].tool_result.call_id = records[i].tool_call.call_id
        /\ records[i].tool_result.name = records[i].tool_call.name

NoCall == [op |-> "none", pre |-> <<>>, arg |-> "", records |-> <<>>, tool_supported |-> FALSE]

ContextIdle ==
    /\ messages = <<>>
    /\ last = NoCall
    /\ derived = TRUE

PatchIdle ==
    /\ old_content = <<>>
    /\ blocks = <<>>
    /\ modified = None
    /\ reapplied = None

Agents == {"A", "B"}
VariableNames == {"x", "y"}
Tasks == {"t1", "t2"}

EmptyWorkflow ==
    [state |-> [id \in Agents |-> None], variables |-> [name \in VariableNames |-> None]]

StoreIdle ==
    /\ workflow = EmptyWorkflow
    /\ lock = [writer |-> None, readers |-> {}]
    /\ tasks = [t \in Tasks |-> [pc |-> "idle", call |-> None, ret |-> None,
                                  expect |-> None, calls |-> 0]]
    /\ latest = EmptyWorkflow

\* Nothing yielded yet.  count: the items yielded; errs: the Err items among
\* them; after_err: the items yielded after an Err item; last: the last item;
\* agents: the agents of the items, in order, runs of one agent written once.
NoneReceived ==
    [count |-> 0, errs |-> 0, after_err |-> 0, last |-> None, agents |-> <<>>]

NoResponse ==
    [text |-> "", tool_calls |-> <<>>, started |-> 0, results |-> <<>>, ends |-> <<>>,
     failed |-> {}]

Paths == {"/f", "f"}

ToolIdle ==
    /\ disk = [p \in Paths |-> None]
    /\ last_call = None

AttachmentsIdle ==
    /\ files = <<>>
    /\ typed = <<>>
    /\ chat = <<>>
    /\ attached = None

Modes == {"act", "plan"}

\* UIState::default / UIState::new(mode): no conversation yet, the next
\* message is the first
UIState_new(mode) == [conversation_id |-> None, is_first |-> TRUE, mode |-> mode]

UIIdle ==
    /\ ui_state = UIState_new("act")
    /\ cli = [conversation |-> FALSE, mode |-> "act"]
    /\ sent = <<>>
    /\ epoch = 0
    /\ held = <<>>
    /\ reset_since = FALSE

ModelIds == {"m1", "m2"}

NoProviderCall ==
    [pc |-> "idle", fn |-> "", model |-> "", hit |-> FALSE, asked |-> 0,
     ret |-> None, calls |-> 0]

ProviderIdle ==
    /\ pcache = [id \in ModelIds |-> None]
    /\ others = 0
    /\ ptasks = [t \in Tasks |-> NoProviderCall]
    /\ pstats = [id \in ModelIds |-> [first |-> None, again |-> FALSE, evicted |-> FALSE]]

ConfigKeys == {"PrimaryModel", "SecondaryModel", "ToolTimeout"}

ConsoleIdle ==
    /\ console_line = <<>>
    /\ console_cmd = None

ConfigIdle ==
    /\ config_values = [k \in ConfigKeys |-> None]
    /\ config_call = None
    /\ config_latest = [k \in ConfigKeys |-> None]

SerdeIdle ==
    /\ serde_wf = None
    /\ serde_text = None
    /\ serde_back = None

MainIdle ==
    /\ ProviderIdle
    /\ ConsoleIdle
    /\ ConfigIdle
    /\ SerdeIdle

ExtIdle ==
    /\ ToolIdle
    /\ AttachmentsIdle
    /\ UIIdle
    /\ MainIdle

OrchIdle ==
    /\ config = [tool_supported |-> TRUE, handover |-> FALSE, provider |-> "free"]
    /\ current = "A"
    /\ pc = [a \in Agents |-> "Idle"]
    /\ iterations = [a \in Agents |-> 0]
    /\ contexts = [a \in Agents |-> <<>>]
    /\ response = NoResponse
    /\ rounds = 0
    /\ error = None
    /\ outcome = None
    /\ exec = "finished"
    /\ chan = <<>>
    /\ received = NoneReceived
    /\ closed = TRUE

InitContext ==
    /\ ExtIdle
    /\ ContextIdle
    /\ PatchIdle
    /\ StoreIdle
    /\ OrchIdle

AddMessage ==
    \E m \in {user(c) : c \in {"a"}} \cup {assistant("a", Some(cs)) : cs \in CallLists} :
        /\ Len(messages) < MaxMessages
        /\ messages' = add_message(messages, m)
        /\ last' = NoCall
        /\ UNCHANGED derived
        /\ UNCHANGED <<patchVars, storeVars, orchVars, extVars>>

AddUrl ==
    \E url \in Urls :
        /\ Len(messages) < MaxMessages
        /\ messages' = add_url(messages, url)
        /\ last' = NoCall
        /\ UNCHANGED derived
        /\ UNCHANGED <<patchVars, storeVars, orchVars, extVars>>

AddToolResults ==
    \E results \in ResultLists :
        /\ Len(messages) + Len(results) <= MaxMessages
        /\ messages' = add_tool_results(messages, results)
        /\ last' = NoCall
        /\ derived' = (derived /\ results = <<>>)
        /\ UNCHANGED <<patchVars, storeVars, orchVars, extVars>>

SetFirstSystemMessage ==
    \E text \in Contents :
        /\ Len(set_first_system_message(messages, text)) <= MaxMessages
        /\ messages' = set_first_system_message(messages, text)
        /\ last' = [NoCall EXCEPT !.op = "set_first_system_message", !.pre = messages,
                                    !.arg = text]
        /\ UNCHANGED derived
        /\ UNCHANGED <<patchVars, storeVars, orchVars, extVars>>

AppendMessage ==
    \E records \in DerivedRecordLists \cup ForeignRecordLists, tool_supported \in BOOLEAN :
        /\ Len(append_message(messages, "a", records, tool_supported)) <= MaxMessages
        /\ messages' = append_message(messages, "a", records, tool_supported)
        /\ last' = [op |-> "append_message", pre |-> messages, arg |-> "a",
                    records |-> records, tool_supported |-> tool_supported]
        /\ derived' = (derived /\ (IsDerived(records) \/ ~tool_supported))
        /\ UNCHANGED <<patchVars, storeVars, orchVars, extVars>>

NextContext ==
    \/ AddMessage
    \/ AddUrl
    \/ AddToolResults
    \/ SetFirstSystemMessage
    \/ AppendMessage

Init == InitContext
Next == NextContext
Spec == Init /\ [][Next]_vars

(***************************************************************************)
(* forge_app/src/tools/patch/apply.rs: the fs_patch engine.                *)
(* A Rust String is its UTF-8 byte sequence. The model's characters are    *)
(* "a" (one byte) and a two-byte character (a lead byte followed by a      *)
(* continuation byte), so byte offsets and character boundaries differ as  *)
(* they do in the code.                                                    *)
(***************************************************************************)
ByteA == <<97>>
TwoByteChar == <<195, 169>>
IsContinuation(byte) == byte \in 128..191

Chars == {ByteA, TwoByteChar}

RECURSIVE Encode(_)
Encode(cs) == IF cs = <<>> THEN <<>> ELSE Head(cs) \o Encode(Tail(cs))

\* The strings of at most n characters.
Strings(n) == {Encode(cs) : cs \in UNION {[1..k -> Chars] : k \in 0..n}}

PatchBlock(search, replace) == [search |-> search, replace |-> replace]

\* A mutant of find: a pattern that does not occur is found at offset 0.
find_or_start(s, pat) ==
    LET hits == {i \in 0..(Len(s) - Len(pat)) : SubSeq(s, i + 1, i + Len(pat)) = pat}
    IN  IF hits = {} THEN Some(0)
        ELSE Some(CHOOSE i \in hits : \A j \in hits : i <= j)

\* str::find: the byte offset of the first occurrence of pat in s
find(s, pat) ==
    LET hits == {i \in 0..(Len(s) - Len(pat)) : SubSeq(s, i + 1, i + Len(pat)) = pat}
    IN  IF hits = {} THEN None
        ELSE Some(CHOOSE i \in hits : \A j \in hits : i <= j)

\* str::char_indices: the byte offset of each character of s
char_indices(s) == {i \in 0..(Len(s) - 1) : ~IsContinuation(s[i + 1])}

\* String::replace_range(start..end, replacement)
replace_range(s, start, end, replacement) ==
    SubSeq(s, 1, start) \o replacement \o SubSeq(s, end + 1, Len(s))

\* get_utf8_safe_indices
get_utf8_safe_indices(s, byte_start, byte_end) ==
    IF byte_start \in char_indices(s) /\ byte_end \in char_indices(s)
    THEN Some(<<byte_start, byte_end>>)
    ELSE None

\* safe_replace_range
safe_replace_range(s, start, end, replacement) ==
    LET safe == get_utf8_safe_indices(s, start, end)
    IN  IF IsSome(safe)
        THEN replace_range(s, Unwrap(safe)[1], Unwrap(safe)[2], replacement)
        ELSE s

\* A mutant of apply_block: an empty search puts the replacement in front.
apply_block_prepends(result, block) ==
    IF block.search = <<>>
    THEN block.replace \o result
    ELSE LET start_idx == find(result, block.search)
         IN  IF IsSome(start_idx)
             THEN safe_replace_range(result, Unwrap(start_idx),
                                     Unwrap(start_idx) + Len(block.search), block.replace)
             ELSE result

\* A mutant of apply_block: a search that is not found empties the content.
apply_block_unmatched_clears(result, block) ==
    IF block.search = <<>>
    THEN result \o block.replace
    ELSE LET start_idx == find(result, block.search)
         IN  IF IsSome(start_idx)
             THEN safe_replace_range(result, Unwrap(start_idx),
                                     Unwrap(start_idx) + Len(block.search), block.replace)
             ELSE <<>>

\* One iteration of the loop of apply_patches
apply_block(result, block) ==
    IF block.search = <<>>
    THEN result \o block.replace
    ELSE LET start_idx == find(result, block.search)
         IN  IF IsSome(start_idx)
             THEN safe_replace_range(result, Unwrap(start_idx),
                                     Unwrap(start_idx) + Len(block.search), block.replace)
             ELSE result

\* A mutant of apply_patches: the blocks are applied last first.
RECURSIVE apply_patches_last_first(_, _)
apply_patches_last_first(text, bs) ==
    IF bs = <<>> THEN text
    ELSE apply_patches_last_first(apply_block(text, bs[Len(bs)]), SubSeq(bs, 1, Len(bs) - 1))

\* apply_patches: the blocks are applied in order, each to the result so far
RECURSIVE apply_patches(_, _)
apply_patches(text, bs) ==
    IF bs = <<>> THEN text
    ELSE apply_patches(apply_block(text, Head(bs)), Tail(bs))

(***************************************************************************)
(* The patch specification: apply_patches on any content and block list.   *)
(***************************************************************************)
Replacements == {<<>>, ByteA}

Blocks == {PatchBlock(se, re) : se \in Strings(MaxSearchLen), re \in Replacements}

BlockLists == UNION {[1..k -> Blocks] : k \in 0..MaxBlocks}

InitPatch ==
    /\ ExtIdle
    /\ ContextIdle
    /\ StoreIdle
    /\ OrchIdle
    /\ old_content \in Strings(MaxContentLen)
    /\ blocks \in BlockLists
    /\ modified = None
    /\ reapplied = None

ApplyPatches ==
    /\ modified = None
    /\ modified' = Some(apply_patches(old_content, blocks))
    /\ UNCHANGED <<old_content, blocks, reapplied>>
    /\ UNCHANGED <<ctxVars, storeVars, orchVars, extVars>>

\* The same blocks are applied once more, to the content the first call left
ApplyPatchesAgain ==
    /\ IsSome(modified)
    /\ reapplied = None
    /\ reapplied' = Some(apply_patches(Unwrap(modified), blocks))
    /\ UNCHANGED <<old_content, blocks, modified>>
    /\ UNCHANGED <<ctxVars, storeVars, orchVars, extVars>>

NextPatch == ApplyPatches \/ ApplyPatchesAgain

SpecPatch == InitPatch /\ [][NextPatch]_vars

(***************************************************************************)
(* Tool calls on files: ApplyPatch::call (tools/patch/apply.rs),           *)
(* ApplyPatchJson::call (tools/patch/apply_json.rs), ApplyPatchV2::call    *)
(* (forge_tool/src/patch/apply_v2.rs), FSRead::call and FSSearch::call     *)
(* (forge_tool/src/fs).  A call runs to completion in one step; each       *)
(* filesystem operation of a call may fail with an I/O error.  The XML     *)
(* wrapper of a patch tool's output is not modelled: value is the content  *)
(* the call computed.                                                      *)
(***************************************************************************)
AbsolutePaths == {"/f"}

\* Path::is_absolute
is_absolute(path) == path \in AbsolutePaths

\* utils::assert_absolute_path: Ok(()) for an absolute path, else an error
assert_absolute_path(path) == is_absolute(path)

\* Path::exists
exists(fs, path) == IsSome(fs[path])

ParseError == <<"ParseError">>

FileContents == Strings(MaxFileLen)

\* The search texts given to the patch tools: empty, or one character
ToolSearches == {<<>>} \cup Chars

ToolBlocks == {PatchBlock(se, re) : se \in ToolSearches, re \in Replacements}

ToolBlockLists == UNION {[1..k -> ToolBlocks] : k \in 0..MaxToolBlocks}

\* parse::parse_blocks: the blocks of a diff, or a parse error
Diffs == [ok : {TRUE}, blocks : ToolBlockLists] \cup [ok : {FALSE}, blocks : {<<>>}]

\* A finished call that returned Ok(value); matches: the files FSSearch reported;
\* replacements: those of an ApplyPatchV2Input
CallOk(tool, path, fs, ops, value, matches) ==
    [tool |-> tool, path |-> path, before |-> fs, ops |-> ops,
     ok |-> TRUE, error |-> "", value |-> value, matches |-> matches, replacements |-> <<>>]

\* A finished call that returned Err
CallErr(tool, path, fs, ops, kind) ==
    [tool |-> tool, path |-> path, before |-> fs, ops |-> ops,
     ok |-> FALSE, error |-> kind, value |-> <<>>, matches |-> <<>>, replacements |-> <<>>]

\* ApplyPatchV2Input { path, replacements }: the finished call c with its input
ApplyPatchV2Input(c, replacements) == [c EXCEPT !.replacements = replacements]

Finish(fs, c) ==
    /\ disk' = fs
    /\ last_call' = Some(c)
    /\ UNCHANGED <<ctxVars, patchVars, storeVars, orchVars, attVars, uiVars, mainVars>>

\* What a failed fs::write can leave: the old content (the file could not be
\* opened) or any prefix of the new content (the file was truncated and the
\* write stopped part-way).
FailedWrite(old, new) == {old} \cup {SubSeq(new, 1, k) : k \in 0..Len(new)}

\* fs::write(path, content) that succeeded
written(fs, path, content_arg) == [fs EXCEPT ![path] = Some(content_arg)]

\* ApplyPatch::call
ApplyPatchCall ==
    /\ last_call = None
    /\ \E path \in Paths, diff \in Diffs :
         IF ~assert_absolute_path(path)
         THEN Finish(disk, CallErr("ApplyPatch", path, disk, <<>>, "NotAbsolute"))
         ELSE IF ~exists(disk, path)
         THEN Finish(disk, CallErr("ApplyPatch", path, disk, <<"exists">>, "FileNotFound"))
         ELSE IF ~diff.ok
         THEN Finish(disk, CallErr("ApplyPatch", path, disk, <<"exists">>, "Parse"))
         ELSE \E read_ok \in BOOLEAN, write_ok \in BOOLEAN, reread_ok \in BOOLEAN :
              IF ~read_ok
              THEN Finish(disk, CallErr("ApplyPatch", path, disk, <<"exists", "read">>, "Read"))
              ELSE
              LET old == Unwrap(disk[path])
                  new == apply_patches(old, diff.blocks)
              IN  IF ~write_ok
                  THEN \E left \in FailedWrite(old, new) :
                         Finish(written(disk, path, left),
                                CallErr("ApplyPatch", path, disk,
                                        <<"exists", "read", "write">>, "Write"))
                  ELSE IF ~reread_ok
                  THEN Finish(written(disk, path, new),
                              CallErr("ApplyPatch", path, disk,
                                      <<"exists", "read", "write", "read">>, "Read"))
                  ELSE Finish(written(disk, path, new),
                              CallOk("ApplyPatch", path, disk,
                                     <<"exists", "read", "write", "read">>, new, <<>>))

Operations == {"Prepend", "Append", "Replace", "Swap"}

Found(value) == [ok |-> TRUE, error |-> "", value |-> value]
NotFound(kind) == [ok |-> FALSE, error |-> kind, value |-> <<>>]

\* &source[from..to]
Slice(source, from, to) == SubSeq(source, from + 1, to)

\* apply_replacement of apply_json.rs
apply_replacement(source, search, operation, content_arg) ==
    IF search = <<>>
    THEN CASE operation = "Append" -> Found(source \o content_arg)
           [] operation = "Prepend" -> Found(content_arg \o source)
           [] operation = "Replace" -> Found(content_arg)
           [] operation = "Swap" -> Found(source)
    ELSE LET patch == find(source, search)
             n == Len(source)
         IN  IF ~IsSome(patch) THEN NotFound("NoMatch")
             ELSE LET start == Unwrap(patch)
                      end == start + Len(search)
                  IN  CASE operation = "Prepend" ->
                             Found(Slice(source, 0, start) \o content_arg \o Slice(source, start, n))
                        [] operation = "Append" ->
                             Found(Slice(source, 0, end) \o content_arg \o Slice(source, end, n))
                        [] operation = "Replace" ->
                             Found(Slice(source, 0, start) \o content_arg \o Slice(source, end, n))
                        [] operation = "Swap" ->
                             LET target == find(source, content_arg)
                             IN  IF ~IsSome(target) THEN NotFound("NoSwapTarget")
                                 ELSE LET tstart == Unwrap(target)
                                          tend == tstart + Len(content_arg)
                                      IN  IF (start <= tstart /\ end > tstart)
                                             \/ (tstart <= start /\ tend > start)
                                          THEN Found(Slice(source, 0, start) \o content_arg
                                                     \o Slice(source, end, n))
                                          ELSE IF start < tstart
                                          THEN Found(Slice(source, 0, start) \o content_arg
                                                     \o Slice(source, end, tstart)
                                                     \o Slice(source, start, end)
                                                     \o Slice(source, tend, n))
                                          ELSE Found(Slice(source, 0, tstart)
                                                     \o Slice(source, start, end)
                                                     \o Slice(source, tend, start)
                                                     \o content_arg
                                                     \o Slice(source, end, n))

\* ApplyPatchJson::call with process_file_modifications of apply_json.rs
ApplyPatchJsonCall ==
    /\ last_call = None
    /\ \E path \in Paths, search \in ToolSearches, operation \in Operations,
          content_arg \in ToolSearches, read_ok \in BOOLEAN, write_ok \in BOOLEAN :
         IF ~assert_absolute_path(path)
         THEN Finish(disk, CallErr("ApplyPatchJson", path, disk, <<>>, "NotAbsolute"))
         ELSE IF ~exists(disk, path) \/ ~read_ok
         THEN Finish(disk, CallErr("ApplyPatchJson", path, disk, <<"read">>, "Read"))
         ELSE LET old == Unwrap(disk[path])
                  new == apply_replacement(old, search, operation, content_arg)
              IN  IF ~new.ok
                  THEN Finish(disk, CallErr("ApplyPatchJson", path, disk, <<"read">>, new.error))
                  ELSE IF ~write_ok
                  THEN \E left \in FailedWrite(old, new.value) :
                         Finish(written(disk, path, left),
                                CallErr("ApplyPatchJson", path, disk, <<"read", "write">>,
                                        "Write"))
                  ELSE Finish(written(disk, path, new.value),
                              CallOk("ApplyPatchJson", path, disk, <<"read", "write">>,
                                     new.value, <<>>))

\* The substrings of s that start and end between characters
Substrings(s) ==
    {SubSeq(s, i + 1, j) : <<i, j>> \in {ij \in char_indices(s) \X (char_indices(s) \cup {Len(s)}) :
                                           ij[1] < ij[2]}}

\* str::chars().count()
chars_count(s) == Cardinality(char_indices(s))

MATCH_THRESHOLD_TENTHS == 7

\* PatchMatch::is_good_match, with PatchMatch::new's similarity
is_good_match(text, total_len) == chars_count(text) * 10 >= MATCH_THRESHOLD_TENTHS * total_len

\* find_best_match: None, or an Equal chunk of dissimilar::diff(content, search)
\* that is a good match.  Which Equal chunks the diff yields is left open:
\* they are common substrings of the two texts.
find_best_match(content_arg, search) ==
    {None} \cup {Some(text) : text \in {t \in Substrings(content_arg) \cap Substrings(search) :
                                          is_good_match(t, Len(search))}}

\* str::replacen(pat, to, 1)
replacen(s, pat, to) ==
    LET at == find(s, pat)
    IN  IF IsSome(at)
        THEN Slice(s, 0, Unwrap(at)) \o to \o Slice(s, Unwrap(at) + Len(pat), Len(s))
        ELSE s

\* str::replace(pat, to), pat not empty
RECURSIVE str_replace(_, _, _)
str_replace(s, pat, to) ==
    LET at == find(s, pat)
    IN  IF IsSome(at)
        THEN Slice(s, 0, Unwrap(at)) \o to
             \o str_replace(Slice(s, Unwrap(at) + Len(pat), Len(s)), pat, to)
        ELSE s

Replacement(search, content_arg) == [search |-> search, content |-> content_arg]

\* apply_single_replacement: the results it can return
apply_single_replacement(source, replacement) ==
    IF replacement.search = <<>>
    THEN {Found(source \o replacement.content)}
    ELSE {IF ~IsSome(patch)
          THEN NotFound("NoMatch")
          ELSE IF replacement.content = <<>>
          THEN Found(str_replace(source, Unwrap(patch), <<>>))
          ELSE Found(replacen(source, Unwrap(patch), replacement.content))
          : patch \in find_best_match(source, replacement.search)}

\* replacements.iter().try_fold(content, apply_single_replacement)
RECURSIVE try_fold(_, _)
try_fold(acc, replacements) ==
    IF replacements = <<>> THEN {Found(acc)}
    ELSE UNION {IF r.ok THEN try_fold(r.value, Tail(replacements)) ELSE {r}
                : r \in apply_single_replacement(acc, Head(replacements))}

ReplacementLists ==
    UNION {[1..k -> {Replacement(se, co) : se \in ToolSearches, co \in Replacements}]
           : k \in 0..MaxToolBlocks}

\* ApplyPatchV2::call with process_file_modifications of apply_v2.rs
ApplyPatchV2Call ==
    /\ last_call = None
    /\ \E path \in Paths, replacements \in ReplacementLists :
         LET Returned(c) == ApplyPatchV2Input(c, replacements)
         IN
         IF ~assert_absolute_path(path)
         THEN Finish(disk, Returned(CallErr("ApplyPatchV2", path, disk, <<>>, "NotAbsolute")))
         ELSE \E read_ok \in BOOLEAN, write_ok \in BOOLEAN :
              IF ~exists(disk, path) \/ ~read_ok
              THEN Finish(disk, Returned(CallErr("ApplyPatchV2", path, disk, <<"read">>, "Read")))
              ELSE
              \E new \in try_fold(Unwrap(disk[path]), replacements) :
                  IF ~new.ok
                  THEN Finish(disk, Returned(CallErr("ApplyPatchV2", path, disk, <<"read">>,
                                                     new.error)))
                  ELSE IF ~write_ok
                  THEN \E left \in FailedWrite(Unwrap(disk[path]), new.value) :
                         Finish(written(disk, path, left),
                                Returned(CallErr("ApplyPatchV2", path, disk,
                                                 <<"read", "write">>, "Write")))
                  ELSE Finish(written(disk, path, new.value),
                              Returned(CallOk("ApplyPatchV2", path, disk, <<"read", "write">>,
                                              new.value, <<>>)))

\* FSRead::call
FSReadCall ==
    /\ last_call = None
    /\ \E path \in Paths, read_ok \in BOOLEAN :
         IF ~exists(disk, path) \/ ~read_ok
         THEN Finish(disk, CallErr("FSRead", path, disk, <<"read">>, "Read"))
         ELSE Finish(disk, CallOk("FSRead", path, disk, <<"read">>, Unwrap(disk[path]), <<>>))

\* The patterns of the modelled FSSearch calls: empty, or the letter a.  No
\* file name of the modelled filesystem matches the letter a.
Regexes == {<<>>, ByteA}

\* FSSearch::call on a path that is a file: the walk yields that file
FSSearchCall ==
    /\ last_call = None
    /\ \E path \in Paths, regex \in Regexes, read_ok \in BOOLEAN :
         IF ~exists(disk, path)
         THEN Finish(disk, CallErr("FSSearch", path, disk, <<"exists">>,
                                   "Directory does not exist"))
         ELSE IF regex = <<>>
         THEN Finish(disk, CallOk("FSSearch", path, disk, <<"exists", "walk">>, <<>>,
                                  <<path>>))
         ELSE IF read_ok /\ IsSome(find(Unwrap(disk[path]), regex))
         THEN Finish(disk, CallOk("FSSearch", path, disk, <<"exists", "walk", "read">>, <<>>,
                                  <<path>>))
         ELSE Finish(disk, CallOk("FSSearch", path, disk, <<"exists", "walk", "read">>, <<>>,
                                  <<>>))

InitTool ==
    /\ AttachmentsIdle
    /\ UIIdle
    /\ MainIdle
    /\ ContextIdle
    /\ PatchIdle
    /\ StoreIdle
    /\ OrchIdle
    /\ disk \in [Paths -> {None} \cup {Some(c) : c \in FileContents}]
    /\ last_call = None

NextTool ==
    \/ ApplyPatchCall
    \/ ApplyPatchJsonCall
    \/ ApplyPatchV2Call
    \/ FSReadCall
    \/ FSSearchCall

SpecTool == InitTool /\ [][NextTool]_vars

\* The errors of a patch tool call that C15 names
NamedErrors == {"NotAbsolute", "FileNotFound", "Parse", "Read", "NoMatch"}

PatchTools == {"ApplyPatch", "ApplyPatchJson", "ApplyPatchV2"}

\* C15: whenever a patch tool call returns one of the errors path not
\* absolute, file not found, diff that cannot be parsed, read failure or
\* block with no match, the file content is what it was before the call.
C15_ErrorLeavesFile ==
    (IsSome(last_call) /\ Unwrap(last_call).tool \in PatchTools /\ ~Unwrap(last_call).ok
        /\ Unwrap(last_call).error \in NamedErrors)
    => disk = Unwrap(last_call).before

\* C16: a tool call with a non-absolute path returns an error and has made
\* no filesystem operation.
C16_RelativePathRejected ==
    (IsSome(last_call) /\ ~is_absolute(Unwrap(last_call).path))
    => (~Unwrap(last_call).ok /\ Unwrap(last_call).ops = <<>>)

\* The texts find_best_match can return for a search in a source
Matched(source, search) == {Unwrap(p) : p \in {q \in find_best_match(source, search) : IsSome(q)}}

\* An ApplyPatchV2 call with one replacement, of a search text that is not
\* empty, that returned Ok
SingleReplacement ==
    /\ IsSome(last_call)
    /\ Unwrap(last_call).tool = "ApplyPatchV2"
    /\ Unwrap(last_call).ok
    /\ Len(Unwrap(last_call).replacements) = 1
    /\ Unwrap(last_call).replacements[1].search # <<>>

\* C29: an ApplyPatchV2 replacement affects the first occurrence of the
\* matched text only, every other occurrence is left in place, whether the
\* replacement content is empty (delete) or not (replace).
C29_FirstOccurrenceOnly ==
    SingleReplacement =>
        LET c == Unwrap(last_call)
            source == Unwrap(c.before[c.path])
        IN  \E text \in Matched(source, c.replacements[1].search) :
                c.value = replacen(source, text, c.replacements[1].content)

(***************************************************************************)
(* Attachments: ForgeChatRequest::attachments (forge_app/src/attachment.rs)*)
(* Strings and paths are sequences of bytes (ASCII codes).                 *)
(***************************************************************************)
SPACE == 32     \* " "
QUOTE == 34     \* "\""
AT == 64        \* "@"
DOT == 46       \* "."
SLASH == 47     \* "/"

TxtPath == <<47, 97, 46, 116, 120, 116>>                 \* /a.txt
NoExtPath == <<47, 98>>                                  \* /b
PngPath == <<47, 105, 46, 112, 110, 103>>                \* /i.png
SpacePath == <<47, 105, 32, 106, 46, 106, 112, 103>>     \* /i j.jpg

KnownPaths == {TxtPath, NoExtPath, PngPath, SpacePath}

AttachmentContents == {<<104, 105>>, TwoByteChar}        \* "hi", and one two-byte character

\* FileReadService::read: Ok(content) or Err
FileReadService_read(fs, p) == IF p \in DOMAIN fs THEN fs[p] ELSE None

\* The words a user types: a plain word, a mention @path, a mention @"path"
PlainWord(text) == [kind |-> "word", text |-> text]
Mention(p) == [kind |-> "mention", text |-> p]
QuotedMention(p) == [kind |-> "quoted", text |-> p]

TypedWords ==
    {PlainWord(<<111, 107>>)}
    \cup {Mention(p) : p \in {TxtPath, NoExtPath, PngPath}}
    \cup {QuotedMention(SpacePath)}

Typed(w) ==
    CASE w.kind = "word" -> w.text
      [] w.kind = "mention" -> <<AT>> \o w.text
      [] w.kind = "quoted" -> <<AT, QUOTE>> \o w.text \o <<QUOTE>>

\* The message: the typed words with one space between them
RECURSIVE JoinTyped(_)
JoinTyped(ws) ==
    IF ws = <<>> THEN <<>>
    ELSE IF Len(ws) = 1 THEN Typed(ws[1])
    ELSE Typed(ws[1]) \o <<SPACE>> \o JoinTyped(Tail(ws))

\* str::split(" "): the pieces between the spaces, empty pieces included
RECURSIVE split(_)
split(s) ==
    LET spaces == {i \in 1..Len(s) : s[i] = SPACE}
    IN  IF spaces = {} THEN <<s>>
        ELSE LET i == CHOOSE i \in spaces : \A j \in spaces : i <= j
             IN  <<SubSeq(s, 1, i - 1)>> \o split(SubSeq(s, i + 1, Len(s)))

\* str::strip_prefix("@")
strip_prefix(v) == IF Len(v) >= 1 /\ v[1] = AT THEN Some(Tail(v)) ELSE None

\* chat.split(" ").filter_map(|v| v.strip_prefix("@")): the mentioned paths, in order
RECURSIVE FilterMentions(_)
FilterMentions(pieces) ==
    IF pieces = <<>> THEN <<>>
    ELSE (IF IsSome(strip_prefix(Head(pieces))) THEN <<Unwrap(strip_prefix(Head(pieces)))>>
          ELSE <<>>) \o FilterMentions(Tail(pieces))

words(message) == FilterMentions(split(message))

\* Path::file_name of a path that does not end in a slash or in ..
file_name(p) ==
    LET slashes == {i \in 1..Len(p) : p[i] = SLASH}
    IN  IF slashes = {} THEN p
        ELSE SubSeq(p, (CHOOSE i \in slashes : \A j \in slashes : j <= i) + 1, Len(p))

\* Path::extension: what follows the last dot of the file name; None when the
\* name has no dot or only a leading one
Path_extension(p) ==
    LET name == file_name(p)
        dots == {i \in 1..Len(name) : name[i] = DOT}
    IN  IF dots = {} THEN None
        ELSE LET i == CHOOSE i \in dots : \A j \in dots : j <= i
             IN  IF i = 1 THEN None ELSE Some(SubSeq(name, i + 1, Len(name)))

\* ImageType::from_str
ImageType_from_str(ext) ==
    CASE ext = <<112, 110, 103>> -> Some("Png")             \* png
      [] ext = <<106, 112, 103>> -> Some("Jpeg")            \* jpg
      [] ext = <<106, 112, 101, 103>> -> Some("Jpeg")       \* jpeg
      [] OTHER -> None

\* The base64 alphabet: A-Z a-z 0-9 + /
Base64Char(i) ==
    IF i < 26 THEN 65 + i
    ELSE IF i < 52 THEN 97 + (i - 26)
    ELSE IF i < 62 THEN 48 + (i - 52)
    ELSE IF i = 62 THEN 43 ELSE 47

PAD == 61       \* "="

\* base64::engine::general_purpose::STANDARD.encode
RECURSIVE base64_encode(_)
base64_encode(bytes) ==
    IF bytes = <<>> THEN <<>>
    ELSE IF Len(bytes) = 1
    THEN <<Base64Char(bytes[1] \div 4), Base64Char((bytes[1] % 4) * 16), PAD, PAD>>
    ELSE IF Len(bytes) = 2
    THEN <<Base64Char(bytes[1] \div 4),
           Base64Char((bytes[1] % 4) * 16 + bytes[2] \div 16),
           Base64Char((bytes[2] % 16) * 4), PAD>>
    ELSE <<Base64Char(bytes[1] \div 4),
           Base64Char((bytes[1] % 4) * 16 + bytes[2] \div 16),
           Base64Char((bytes[2] % 16) * 4 + bytes[3] \div 64),
           Base64Char(bytes[3] % 64)>>
         \o base64_encode(SubSeq(bytes, 4, Len(bytes)))

Attachment(body, p, content_type) ==
    [content |-> body, path |-> p, content_type |-> content_type]

ImageOf(attachment) == attachment.content_type # "Text"

\* A mutant of populate_attachments: a file that cannot be read counts as empty.
populate_attachments_empty_on_error(fs, v) ==
    LET ext == Path_extension(v)
        read == FileReadService_read(fs, v)
        body == IF IsSome(read) THEN Unwrap(read) ELSE <<>>
    IN  IF IsSome(ext) /\ IsSome(ImageType_from_str(Unwrap(ext)))
        THEN Some(Attachment(base64_encode(body), v, Unwrap(ImageType_from_str(Unwrap(ext)))))
        ELSE Some(Attachment(body, v, "Text"))

\* populate_attachments: Ok(attachment), or Err when the file cannot be read
populate_attachments(fs, v) ==
    LET ext == Path_extension(v)
        read == FileReadService_read(fs, v)
    IN  IF ~IsSome(read) THEN None
        ELSE IF IsSome(ext) /\ IsSome(ImageType_from_str(Unwrap(ext)))
        THEN Some(Attachment(base64_encode(Unwrap(read)), v,
                             Unwrap(ImageType_from_str(Unwrap(ext)))))
        ELSE Some(Attachment(Unwrap(read), v, "Text"))

\* prepare_attachments: the attachments of the paths that could be read, as a set
prepare_attachments(fs, paths) ==
    {Unwrap(populate_attachments(fs, paths[i])) :
        i \in {j \in 1..Len(paths) : IsSome(populate_attachments(fs, paths[j]))}}

\* format!("<file path=\"{}\">{}</file>", attachment.path, attachment.content)
xml(attachment) ==
    <<60, 102, 105, 108, 101, 32, 112, 97, 116, 104, 61, 34>> \o attachment.path
    \o <<34, 62>> \o attachment.content \o <<60, 47, 102, 105, 108, 101, 62>>

\* The orders in which a HashSet can be iterated
Orders(S) == {f \in [1..Cardinality(S) -> S] : \A i, j \in 1..Cardinality(S) : f[i] = f[j] => i = j}

RECURSIVE PushAll(_, _)
PushAll(message, attachments) ==
    IF attachments = <<>> THEN message
    ELSE PushAll(message \o xml(Head(attachments)), Tail(attachments))

\* A mutant of prepare_message: the text attachments stay in the set.
prepare_message_keeps_text(message, attachments) ==
    {[message |-> PushAll(message, order), attachments |-> attachments]
        : order \in Orders({a \in attachments : ~ImageOf(a)})}

\* prepare_message: what it can return, one result per iteration order of the set
prepare_message(message, attachments) ==
    {[message |-> PushAll(message, order), attachments |-> {a \in attachments : ImageOf(a)}]
        : order \in Orders({a \in attachments : ~ImageOf(a)})}

TypedLists == UNION {[1..k -> TypedWords] : k \in 0..MaxWords}

InitAttachments ==
    /\ ContextIdle
    /\ PatchIdle
    /\ StoreIdle
    /\ OrchIdle
    /\ ToolIdle
    /\ UIIdle
    /\ MainIdle
    /\ files \in [KnownPaths -> {None} \cup {Some(c) : c \in AttachmentContents}]
    /\ typed \in TypedLists
    /\ chat = JoinTyped(typed)
    /\ attached = None

\* AttachmentService::attachments
Attachments ==
    /\ attached = None
    /\ \E r \in prepare_message(chat, prepare_attachments(files, words(chat))) :
         attached' = Some([ok |-> TRUE, message |-> r.message, attachments |-> r.attachments])
    /\ UNCHANGED <<files, typed, chat>>
    /\ UNCHANGED <<ctxVars, patchVars, storeVars, orchVars, toolVars, uiVars, mainVars>>

NextAttachments == Attachments

SpecAttachments == InitAttachments /\ [][NextAttachments]_vars

(***************************************************************************)
(* The UI's conversation state: UI::on_message, on_custom_event, on_new,   *)
(* on_mode_change and init_conversation (forge_main/src/ui.rs).  A command *)
(* runs to completion in one step.                                         *)
(***************************************************************************)
EVENT_USER_TASK_INIT == "user_task_init"
EVENT_USER_TASK_UPDATE == "user_task_update"

\* The conversation --conversation loads: the id stored in the file
LoadedConversation == 0

\* create_task_init_event: the name format!("{}/{}", mode, EVENT_USER_TASK_INIT)
create_task_init_event(st) == <<st.mode, EVENT_USER_TASK_INIT>>

\* create_task_update_event
create_task_update_event(st) == <<st.mode, EVENT_USER_TASK_UPDATE>>

\* The name of a Command::Custom event
CustomEvent == <<"custom", "event">>

\* A mutant of init_conversation: a conversation is opened on every call,
\* whether the state holds one or not.
init_conversation_reopens(st, n) ==
    {[ok |-> FALSE, state |-> st, opened |-> FALSE],
     [ok |-> FALSE, state |-> UIState_new(cli.mode), opened |-> FALSE],
     [ok |-> TRUE,
      state |-> [UIState_new(cli.mode) EXCEPT
                   !.conversation_id =
                       Some(IF cli.conversation THEN LoadedConversation ELSE n + 1)],
      opened |-> TRUE]}

\* init_conversation: the state it leaves and whether it returned Ok.
\* With a conversation already open it returns its id.  Otherwise it fails
\* before the state is replaced (the workflow cannot be read, no model is
\* selected), fails after (the conversation file cannot be read or parsed,
\* api.init_conversation fails), or opens a conversation: the one of the
\* --conversation file, or a new one.
init_conversation(st, n) ==
    IF IsSome(st.conversation_id)
    THEN {[ok |-> TRUE, state |-> st, opened |-> FALSE]}
    ELSE {[ok |-> FALSE, state |-> st, opened |-> FALSE],
          [ok |-> FALSE, state |-> UIState_new(cli.mode), opened |-> FALSE],
          [ok |-> TRUE,
           state |-> [UIState_new(cli.mode) EXCEPT
                        !.conversation_id =
                            Some(IF cli.conversation THEN LoadedConversation ELSE n + 1)],
           opened |-> TRUE]}

\* A mutant of on_message's choice of event: is_first is left as it was.
task_event_keeps_first(st) ==
    IF st.is_first
    THEN [state |-> st, name |-> create_task_init_event(st)]
    ELSE [state |-> st, name |-> create_task_update_event(st)]

\* on_message: the event for the message, and the state with is_first cleared
task_event(st) ==
    IF st.is_first
    THEN [state |-> [st EXCEPT !.is_first = FALSE], name |-> create_task_init_event(st)]
    ELSE [state |-> st, name |-> create_task_update_event(st)]

\* ChatRequest::new(event, conversation_id) handed to api.chat; ok: the
\* request of a user message and its stream ended without an error (the
\* outcome of the other requests changes nothing and is not kept)
ChatRequest(name, st, e, ok) ==
    [event |-> name, conversation_id |-> Unwrap(st.conversation_id), epoch |-> e, ok |-> ok]

CanOpen == IsSome(ui_state.conversation_id) \/ epoch < MaxConversations

\* api.compact_conversation(&conversation_id) and api.conversation(&conversation_id)
Compaction == <<"api", "compact_conversation">>
Dump == <<"api", "conversation">>

\* The opening of a conversation by init_conversation, as the history keeps it
Opening(c, by, reset) ==
    [id |-> Unwrap(c.state.conversation_id), by |-> by, created |-> ~cli.conversation,
     after_reset |-> reset]

\* The history after a command whose init_conversation returned c
Opened(c, by, reset) ==
    /\ epoch' = IF c.opened THEN epoch + 1 ELSE epoch
    /\ held' = IF c.opened THEN Append(held, Opening(c, by, reset)) ELSE held
    /\ reset_since' = IF c.opened THEN FALSE ELSE reset

\* UI::on_message
OnMessage ==
    /\ CanOpen
    /\ Len(sent) < MaxEvents
    /\ \E c \in init_conversation(ui_state, epoch), chat_ok \in BOOLEAN :
         /\ Opened(c, "command", reset_since)
         /\ IF c.ok
            THEN /\ ui_state' = task_event(c.state).state
                 /\ sent' = Append(sent, ChatRequest(task_event(c.state).name, c.state,
                                                     epoch', chat_ok))
            ELSE /\ ui_state' = c.state
                 /\ sent' = sent
    /\ UNCHANGED cli
    /\ UNCHANGED <<ctxVars, patchVars, storeVars, orchVars, toolVars, attVars, mainVars>>

\* UI::on_custom_event
OnCustomEvent ==
    /\ CanOpen
    /\ Len(sent) < MaxEvents
    /\ \E c \in init_conversation(ui_state, epoch) :
         /\ Opened(c, "command", reset_since)
         /\ ui_state' = c.state
         /\ sent' = IF c.ok THEN Append(sent, ChatRequest(CustomEvent, c.state, epoch', TRUE))
                    ELSE sent
    /\ UNCHANGED cli
    /\ UNCHANGED <<ctxVars, patchVars, storeVars, orchVars, toolVars, attVars, mainVars>>

\* UI::on_compaction
OnCompaction ==
    /\ CanOpen
    /\ Len(sent) < MaxEvents
    /\ \E c \in init_conversation(ui_state, epoch) :
         /\ Opened(c, "command", reset_since)
         /\ ui_state' = c.state
         /\ sent' = IF c.ok THEN Append(sent, ChatRequest(Compaction, c.state, epoch', TRUE))
                    ELSE sent
    /\ UNCHANGED cli
    /\ UNCHANGED <<ctxVars, patchVars, storeVars, orchVars, toolVars, attVars, mainVars>>

\* UI::on_dump
OnDump ==
    /\ IsSome(ui_state.conversation_id)
    /\ Len(sent) < MaxEvents
    /\ sent' = Append(sent, ChatRequest(Dump, ui_state, epoch, TRUE))
    /\ UNCHANGED <<ui_state, cli, epoch, held, reset_since>>
    /\ UNCHANGED <<ctxVars, patchVars, storeVars, orchVars, toolVars, attVars, mainVars>>

\* UI::on_new
OnNew ==
    /\ epoch < MaxConversations
    /\ \E c \in init_conversation(UIState_new("act"), epoch) :
         /\ Opened(c, "new", TRUE)
         /\ ui_state' = c.state
    /\ UNCHANGED <<cli, sent>>
    /\ UNCHANGED <<ctxVars, patchVars, storeVars, orchVars, toolVars, attVars, mainVars>>

\* UI::on_mode_change
OnModeChange ==
    /\ epoch < MaxConversations
    /\ \E mode \in Modes, c \in init_conversation(UIState_new("act"), epoch) :
         /\ Opened(c, "mode", TRUE)
         /\ ui_state' = IF c.ok THEN [c.state EXCEPT !.mode = mode] ELSE c.state
    /\ UNCHANGED <<cli, sent>>
    /\ UNCHANGED <<ctxVars, patchVars, storeVars, orchVars, toolVars, attVars, mainVars>>

InitUI ==
    /\ ContextIdle
    /\ PatchIdle
    /\ StoreIdle
    /\ OrchIdle
    /\ ToolIdle
    /\ AttachmentsIdle
    /\ MainIdle
    /\ cli \in [conversation : BOOLEAN, mode : Modes]
    /\ ui_state = UIState_new("act")
    /\ sent = <<>>
    /\ epoch = 0
    /\ held = <<>>
    /\ reset_since = FALSE

NextUI ==
    \/ OnMessage
    \/ OnCustomEvent
    \/ OnCompaction
    \/ OnDump
    \/ OnNew
    \/ OnModeChange

SpecUI == InitUI /\ [][NextUI]_vars

(***************************************************************************)
(* Properties of the patch specification                                   *)
(***************************************************************************)
Occurs(s, pat) == \E i \in 0..(Len(s) - Len(pat)) : SubSeq(s, i + 1, i + Len(pat)) = pat

FirstIndex(s, pat) ==
    CHOOSE i \in 0..(Len(s) - Len(pat)) :
        /\ SubSeq(s, i + 1, i + Len(pat)) = pat
        /\ \A j \in 0..(i - 1) : SubSeq(s, j + 1, j + Len(pat)) # pat

OneBlockDone == IsSome(modified) /\ Len(blocks) = 1

\* C10: one block with a non-empty search that occurs in the content S
\* replaces exactly the first occurrence: with i the first index of search,
\* the result is S[0..i) ++ replace ++ S[i+len(search)..], wherever the
\* occurrence lies and also for an empty replace.
C10_FirstOccurrenceReplaced ==
    (OneBlockDone /\ blocks[1].search # <<>> /\ Occurs(old_content, blocks[1].search)) =>
        LET i == FirstIndex(old_content, blocks[1].search)
        IN  Unwrap(modified) =
                SubSeq(old_content, 1, i) \o blocks[1].replace
                \o SubSeq(old_content, i + Len(blocks[1].search) + 1, Len(old_content))

RECURSIVE Replaces(_)
Replaces(bs) == IF bs = <<>> THEN <<>> ELSE Head(bs).replace \o Replaces(Tail(bs))

\* C11: a block with an empty search appends its replace: one such block
\* turns any content S, the empty one included, into S ++ replace, and a
\* list of such blocks appends their replaces in order.
C11_EmptySearchAppends ==
    (IsSome(modified) /\ \A k \in 1..Len(blocks) : blocks[k].search = <<>>) =>
        Unwrap(modified) = old_content \o Replaces(blocks)

\* One block with an empty search was applied to the empty file
C11_Witness ==
    /\ OneBlockDone
    /\ old_content = <<>>
    /\ blocks[1] = PatchBlock(<<>>, ByteA)
    /\ modified = Some(ByteA)

\* The content block k of the call is applied to
Before(k) == apply_patches(old_content, SubSeq(blocks, 1, k - 1))

Unmatched(k) == blocks[k].search # <<>> /\ ~Occurs(Before(k), blocks[k].search)

InSequence(S, bs) ==
    LET F[k \in 0..Len(bs)] == IF k = 0 THEN S ELSE apply_block(F[k - 1], bs[k])
    IN  F[Len(bs)]

\* C13: the content returned is the one obtained by applying the blocks one
\* at a time in the order given, each to the content the blocks before it
\* produced.
C13_BlocksInOrder ==
    IsSome(modified) => Unwrap(modified) = InSequence(old_content, blocks)

\* The second block matched text that only the first block had put there
C13_Witness ==
    /\ IsSome(modified)
    /\ old_content = TwoByteChar \o TwoByteChar
    /\ blocks = <<PatchBlock(TwoByteChar, ByteA), PatchBlock(ByteA, <<>>)>>
    /\ ~Occurs(old_content, ByteA)
    /\ modified = Some(TwoByteChar)

\* C14, as stated: applying the blocks to their own result changes nothing.
C14_Idempotent ==
    IsSome(reapplied) => reapplied = modified

\* C14, amended: applying the blocks to their own result changes nothing
\* when no block has an empty search or a search that occurs in that result.
C14_IdempotentWhenNothingMatches ==
    (IsSome(reapplied)
     /\ \A k \in 1..Len(blocks) :
            blocks[k].search # <<>> /\ ~Occurs(Unwrap(modified), blocks[k].search))
        => reapplied = modified

\* A call that changed the content was repeated on its result and found nothing
C14_Witness ==
    /\ IsSome(reapplied)
    /\ old_content = TwoByteChar \o ByteA
    /\ blocks = <<PatchBlock(TwoByteChar, ByteA)>>
    /\ modified = Some(ByteA \o ByteA)
    /\ reapplied = modified

(***************************************************************************)
(* forge_domain/src/workflow.rs: ConcurrentWorkflow, a Workflow behind a   *)
(* tokio RwLock. Each accessor awaits the guard, works on the map while it *)
(* holds the guard, and drops the guard when it returns. A HashMap is not  *)
(* atomic: while an insert is under way the map must not be read.          *)
(***************************************************************************)
StoredContexts == {<<user("a")>>, <<user("b")>>}
Values == {"1", "2"}

ContextCalls ==
    {[fn |-> "context", key |-> id, arg |-> None] : id \in Agents}
    \cup {[fn |-> "set_context", key |-> id, arg |-> Some(c)] : id \in Agents, c \in StoredContexts}

VariableCalls ==
    {[fn |-> "read_variable", key |-> n, arg |-> None] : n \in VariableNames}
    \cup {[fn |-> "write_variable", key |-> n, arg |-> Some(v)] : n \in VariableNames, v \in Values}

IsWrite(call) == call.fn \in {"set_context", "write_variable"}

\* RwLock::read().await resolves when no task holds the write guard
read_ready(lk, t) == lk.writer = None

\* A mutant of write_ready: the write guard is handed out while read guards are held.
write_ready_ignores_readers(lk, t) == lk.writer = None

\* RwLock::write().await resolves when no task holds any guard
write_ready(lk, t) == lk.writer = None /\ lk.readers = {}

\* guard.state.get(id).cloned() / guard.variables.get(name).cloned()
lookup(wf, call) ==
    IF call.fn = "context" THEN wf.state[call.key] ELSE wf.variables[call.key]

\* guard.state.insert(agent, context) / guard.variables.set(name, value)
insert(wf, call) ==
    IF call.fn = "set_context"
    THEN [wf EXCEPT !.state[call.key] = call.arg]
    ELSE [wf EXCEPT !.variables[call.key] = call.arg]

\* Some task is in the middle of changing the map.
Inserting == \E t \in Tasks : tasks[t].pc = "inserting"

\* What a lookup can return: the stored entry, or anything at all when the
\* map is being changed under it.
Lookups(call) ==
    IF Inserting
    THEN {None} \cup (IF call.fn = "context" THEN {Some(c) : c \in StoredContexts}
                                             ELSE {Some(v) : v \in Values})
    ELSE {lookup(workflow, call)}

\* A task calls context, set_context, read_variable or write_variable.
Called(t, call) ==
    /\ tasks[t].pc = "idle"
    /\ tasks[t].calls < MaxCalls
    /\ tasks' = [tasks EXCEPT ![t] = [pc |-> "awaiting", call |-> Some(call), ret |-> None,
                                       expect |-> None, calls |-> @.calls + 1]]
    /\ UNCHANGED <<workflow, lock, latest>>
    /\ UNCHANGED <<ctxVars, patchVars, orchVars, extVars>>

StoreCall(t) ==
    \/ \E call \in ContextCalls : Called(t, call)
    \/ \E call \in VariableCalls : Called(t, call)

\* self.workflow.read().await / self.workflow.write().await
StoreAcquire(t) ==
    /\ tasks[t].pc = "awaiting"
    /\ IF IsWrite(Unwrap(tasks[t].call))
       THEN /\ write_ready(lock, t)
            /\ lock' = [lock EXCEPT !.writer = Some(t)]
       ELSE /\ read_ready(lock, t)
            /\ lock' = [lock EXCEPT !.readers = @ \cup {t}]
    /\ tasks' = [tasks EXCEPT ![t].pc = "guarded"]
    /\ UNCHANGED <<workflow, latest>>
    /\ UNCHANGED <<ctxVars, patchVars, orchVars, extVars>>

\* context / read_variable: the lookup under the read guard
StoreGet(t) ==
    /\ tasks[t].pc = "guarded"
    /\ ~IsWrite(Unwrap(tasks[t].call))
    /\ \E found \in Lookups(Unwrap(tasks[t].call)) :
           tasks' = [tasks EXCEPT ![t].pc = "returning", ![t].ret = found,
                                  ![t].expect = lookup(latest, Unwrap(tasks[t].call))]
    /\ UNCHANGED <<workflow, lock, latest>>
    /\ UNCHANGED <<ctxVars, patchVars, orchVars, extVars>>

\* set_context / write_variable: the insert starts ...
StoreInsertBegin(t) ==
    /\ tasks[t].pc = "guarded"
    /\ IsWrite(Unwrap(tasks[t].call))
    /\ tasks' = [tasks EXCEPT ![t].pc = "inserting"]
    /\ UNCHANGED <<workflow, lock, latest>>
    /\ UNCHANGED <<ctxVars, patchVars, orchVars, extVars>>

\* ... and completes
StoreInsertEnd(t) ==
    /\ tasks[t].pc = "inserting"
    /\ workflow' = insert(workflow, Unwrap(tasks[t].call))
    /\ latest' = IF Unwrap(tasks[t].call).fn = "set_context"
                 THEN [latest EXCEPT !.state[Unwrap(tasks[t].call).key] = Unwrap(tasks[t].call).arg]
                 ELSE [latest EXCEPT !.variables[Unwrap(tasks[t].call).key] = Unwrap(tasks[t].call).arg]
    /\ tasks' = [tasks EXCEPT ![t].pc = "returning"]
    /\ UNCHANGED lock
    /\ UNCHANGED <<ctxVars, patchVars, orchVars, extVars>>

\* The guard is dropped and the call returns.
StoreReturn(t) ==
    /\ tasks[t].pc = "returning"
    /\ lock' = IF IsWrite(Unwrap(tasks[t].call))
               THEN [lock EXCEPT !.writer = None]
               ELSE [lock EXCEPT !.readers = @ \ {t}]
    /\ tasks' = [tasks EXCEPT ![t].pc = "idle"]
    /\ UNCHANGED <<workflow, latest>>
    /\ UNCHANGED <<ctxVars, patchVars, orchVars, extVars>>

InitStore ==
    /\ ExtIdle
    /\ ContextIdle
    /\ PatchIdle
    /\ StoreIdle
    /\ OrchIdle

NextStore ==
    \E t \in Tasks :
        \/ StoreCall(t)
        \/ StoreAcquire(t)
        \/ StoreGet(t)
        \/ StoreInsertBegin(t)
        \/ StoreInsertEnd(t)
        \/ StoreReturn(t)

SpecStore == InitStore /\ [][NextStore]_vars

(***************************************************************************)
(* Properties of the store specification                                   *)
(***************************************************************************)
Returned(t) == tasks[t].pc \in {"returning", "idle"} /\ IsSome(tasks[t].call)

\* C7: every context(agent) / read_variable(name) returns the value of the
\* latest set_context / write_variable for the same key in the one order in
\* which the writes took effect (None before the first write), and a write
\* alters the entry of its own key only: the maps always hold, for every key,
\* the value of the latest write for that key.
C7_LinearizableStore ==
    /\ \A t \in Tasks :
           (Returned(t) /\ ~IsWrite(Unwrap(tasks[t].call))) => tasks[t].ret = tasks[t].expect
    /\ ~Inserting => workflow = latest

\* Two writes to different keys and to the same key have taken effect and a
\* concurrent reader has returned the second value of the twice-written key.
C7_Witness ==
    /\ \E a \in Agents : latest.state[a] = Some(<<user("b")>>)
    /\ \E n \in VariableNames : IsSome(latest.variables[n])
    /\ \E t \in Tasks :
           /\ Returned(t)
           /\ Unwrap(tasks[t].call).fn = "context"
           /\ tasks[t].ret = Some(<<user("b")>>)
           /\ \E u \in Tasks \ {t} : tasks[u].pc = "awaiting" /\ IsWrite(Unwrap(tasks[u].call))

(***************************************************************************)
(* Tasks that extend a context through the store: each reads an agent's    *)
(* context with context(id), adds its own message to what it read and      *)
(* stores the result with set_context(id, ..), then starts over.           *)
(***************************************************************************)
\* The message a task adds
OwnMessage(t) == user(t)

\* The context a task stores: what context(id) returned (the default context
\* when it returned None), with the task's message added
Extension(ret, t) == add_message(IF IsSome(ret) THEN Unwrap(ret) ELSE <<>>, OwnMessage(t))

\* The next call of a task: context(id), then set_context(id, extended)
StoreExtend(t) ==
    IF tasks[t].calls % 2 = 0
    THEN \E id \in Agents : Called(t, [fn |-> "context", key |-> id, arg |-> None])
    ELSE Called(t, [fn |-> "set_context", key |-> Unwrap(tasks[t].call).key,
                    arg |-> Some(Extension(tasks[t].ret, t))])

NextExtend ==
    \E t \in Tasks :
        \/ StoreExtend(t)
        \/ StoreAcquire(t)
        \/ StoreGet(t)
        \/ StoreInsertBegin(t)
        \/ StoreInsertEnd(t)
        \/ StoreReturn(t)

SpecExtend == InitStore /\ [][NextExtend]_vars

\* The task has stored its extension of agent id's context
Extended(t, id) ==
    /\ tasks[t].pc = "idle"
    /\ IsSome(tasks[t].call)
    /\ Unwrap(tasks[t].call).fn = "set_context"
    /\ Unwrap(tasks[t].call).key = id

\* The messages stored for agent id
StoredMessages(id) ==
    IF IsSome(workflow.state[id])
    THEN {Unwrap(workflow.state[id])[i] : i \in 1..Len(Unwrap(workflow.state[id]))}
    ELSE {}

\* C25: when two concurrent tasks have each read agent A's context, extended
\* it with their own message and stored it, the stored context holds the
\* messages of both tasks: no message once stored is lost.
C25_NoStoredMessageLost ==
    \A id \in Agents : \A t \in Tasks :
        Extended(t, id) => OwnMessage(t) \in StoredMessages(id)

(***************************************************************************)
(* The orchestrator's agent-turn loop and ConcurrentWorkflow::execute      *)
(*                                                                         *)
(* Agent A is the entry agent; when config.handover holds it has the one   *)
(* handover {agent: B, wait: true}.  The provider's chunks are TextDelta   *)
(* and Finish (the adapter has already assembled the tool calls).  The     *)
(* free provider answers anything; the looping provider never streams text *)
(* and asks for at most one tool per response, for as long as it likes.    *)
(***************************************************************************)
MAX_ITERATIONS == 1024

Configs ==
    [tool_supported : BOOLEAN, handover : BOOLEAN, provider : {"free"}]

\* AgentMessage<ChatResponse> items of the caller stream, and the error frame
Text(agent, text, is_complete) ==
    [tag |-> "Ok", agent |-> agent, kind |-> "Text", text |-> text,
     is_complete |-> is_complete, call_id |-> None, is_error |-> FALSE]

ToolCallStart(agent, call) ==
    [tag |-> "Ok", agent |-> agent, kind |-> "ToolCallStart", text |-> call.name,
     is_complete |-> FALSE, call_id |-> call.call_id, is_error |-> FALSE]

ToolCallEnd(agent, result) ==
    [tag |-> "Ok", agent |-> agent, kind |-> "ToolCallEnd", text |-> content(result),
     is_complete |-> FALSE, call_id |-> result.call_id, is_error |-> result.is_error]

Err(err) ==
    [tag |-> "Err", agent |-> "", kind |-> err, text |-> "",
     is_complete |-> FALSE, call_id |-> None, is_error |-> TRUE]

\* What a tool's execution comes to: its output, or an error with its chain
\* of causes (a timeout is such an error).
ToolOutcomes ==
    IF config.provider = "free"
    THEN {[ok |-> TRUE, text |-> "a", chain |-> <<>>],
          [ok |-> FALSE, text |-> "", chain |-> <<"outer", "inner">>]}
    ELSE {[ok |-> TRUE, text |-> "a", chain |-> <<>>]}

\* ToolService::call: always a ToolResult, never an Err
ToolService_call(call, out) ==
    IF out.ok
    THEN success(ToolResult_from(call), Generic(out.text))
    ELSE failure(ToolResult_from(call), out.chain)

\* The tool calls a provider response may carry
RequestedCalls ==
    IF config.provider = "free"
    THEN {<<ToolCallFull("t", Some("c1"))>>,
          <<ToolCallFull("t", Some("c1")), ToolCallFull("t", Some("c2"))>>}
    ELSE {<<ToolCallFull("t", Some("c1"))>>}

\* The records handed to append_message: one per call, in request order
collect_records(resp) ==
    [i \in 1..Len(resp.tool_calls) |->
        ToolCallRecord(resp.tool_calls[i], Unwrap(resp.results[i]))]

\* A mutant of loop_overflow: the loop is stopped after its first iteration.
loop_overflow_at_once(n) == n >= 1

\* The safety bound of the loop: no provider call after MAX_ITERATIONS
loop_overflow(n) == n >= MAX_ITERATIONS

\* A mutant of handover_pending: the handover is not waited for.
handover_pending_not_awaited(a) == FALSE

\* A's handover {agent: B, wait: true} has not been taken yet
handover_pending(a) ==
    /\ a = "A"
    /\ config.handover
    /\ pc["B"] = "Idle"

\* A mutant of execute_match: the error is dropped.
execute_match_swallows(result) == <<>>

\* match orch.execute(request).await { Ok(_) => {}, Err(err) => tx.send(Err(err)) }
execute_match(result) ==
    IF result.tag = "Err" THEN <<Err(result.error)>> ELSE <<>>

\* The caller's summary after the stream yields one more item
yield(seen, item) ==
    [count |-> seen.count + 1,
     errs |-> seen.errs + (IF item.tag = "Err" THEN 1 ELSE 0),
     after_err |-> seen.after_err + (IF seen.errs > 0 THEN 1 ELSE 0),
     last |-> Some(item),
     agents |-> IF item.tag = "Err"
                   \/ (seen.agents # <<>> /\ seen.agents[Len(seen.agents)] = item.agent)
                THEN seen.agents
                ELSE Append(seen.agents, item.agent)]

Running(a) == exec = "running" /\ outcome = None /\ current = a

\* tx.send(item).await completes when the channel has room
CanSend == Len(chan) < ChannelCapacity

Fail(a, err) ==
    /\ pc' = [pc EXCEPT ![a] = "Failed"]
    /\ error' = Some(err)

\* Step 1: the system prompt is set on an empty context, the user prompt appended
PrepareTurn(a) ==
    /\ Running(a)
    /\ pc[a] = "Idle"
    /\ contexts' = [contexts EXCEPT ![a] =
           add_message(IF contexts[a] = <<>>
                       THEN set_first_system_message(contexts[a], "a")
                       ELSE contexts[a],
                       user("b"))]
    /\ pc' = [pc EXCEPT ![a] = "Prompting"]
    /\ UNCHANGED <<config, current, iterations, response, rounds, error, outcome,
                   exec, chan, received, closed>>
    /\ UNCHANGED <<ctxVars, patchVars, storeVars, extVars>>

\* Step 1, a template that does not render: fatal, the context is left as it was
TemplateFails(a) ==
    /\ Running(a)
    /\ pc[a] = "Idle"
    /\ Fail(a, "Template")
    /\ UNCHANGED <<config, current, iterations, contexts, response, rounds, outcome,
                   exec, chan, received, closed>>
    /\ UNCHANGED <<ctxVars, patchVars, storeVars, extVars>>

\* Step 3, the first provider call of the turn
CallProvider(a) ==
    /\ Running(a)
    /\ pc[a] = "Prompting"
    /\ pc' = [pc EXCEPT ![a] = "Streaming"]
    /\ iterations' = [iterations EXCEPT ![a] = 1]
    /\ response' = NoResponse
    /\ UNCHANGED <<config, current, contexts, rounds, error, outcome,
                   exec, chan, received, closed>>
    /\ UNCHANGED <<ctxVars, patchVars, storeVars, extVars>>

\* Step 3, a TextDelta chunk
TextDelta(a) ==
    /\ Running(a)
    /\ pc[a] = "Streaming"
    /\ config.provider = "free"
    /\ response.text = ""
    /\ CanSend
    /\ response' = [response EXCEPT !.text = "a"]
    /\ chan' = Append(chan, Text(a, "a", FALSE))
    /\ UNCHANGED <<config, current, pc, iterations, contexts, rounds, error, outcome,
                   exec, received, closed>>
    /\ UNCHANGED <<ctxVars, patchVars, storeVars, extVars>>

\* Steps 3 and 4, Finish with no tool calls: the turn ends
FinishTurn(a) ==
    /\ Running(a)
    /\ pc[a] = "Streaming"
    /\ CanSend
    /\ chan' = Append(chan, Text(a, response.text, TRUE))
    /\ pc' = [pc EXCEPT ![a] = "Done"]
    /\ UNCHANGED <<config, current, iterations, contexts, response, rounds, error,
                   outcome, exec, received, closed>>
    /\ UNCHANGED <<ctxVars, patchVars, storeVars, extVars>>

\* Steps 3 and 4, Finish with tool calls
FinishWithCalls(a) ==
    /\ Running(a)
    /\ pc[a] = "Streaming"
    /\ config.provider = "free" => rounds < MaxRounds
    /\ CanSend
    /\ \E calls \in RequestedCalls :
           response' = [response EXCEPT
               !.tool_calls = calls,
               !.results = [i \in 1..Len(calls) |-> None]]
    /\ chan' = Append(chan, Text(a, response.text, TRUE))
    /\ pc' = [pc EXCEPT ![a] = "Dispatching"]
    /\ rounds' = IF config.provider = "free" THEN rounds + 1 ELSE rounds
    /\ UNCHANGED <<config, current, iterations, contexts, error, outcome,
                   exec, received, closed>>
    /\ UNCHANGED <<ctxVars, patchVars, storeVars, extVars>>

\* Step 3, the provider fails for good (its retries are exhausted)
ProviderError(a) ==
    /\ Running(a)
    /\ pc[a] = "Streaming"
    /\ Fail(a, "Provider")
    /\ UNCHANGED <<config, current, iterations, contexts, response, rounds, outcome,
                   exec, chan, received, closed>>
    /\ UNCHANGED <<ctxVars, patchVars, storeVars, extVars>>

\* Step 4, the next call in request order is announced and dispatched
ToolStart(a) ==
    /\ Running(a)
    /\ pc[a] = "Dispatching"
    /\ response.started < Len(response.tool_calls)
    /\ CanSend
    /\ response' = [response EXCEPT !.started = @ + 1]
    /\ chan' = Append(chan, ToolCallStart(a, response.tool_calls[response.started + 1]))
    /\ UNCHANGED <<config, current, pc, iterations, contexts, rounds, error, outcome,
                   exec, received, closed>>
    /\ UNCHANGED <<ctxVars, patchVars, storeVars, extVars>>

\* Step 4, one dispatched call completes, in any order
ToolEnd(a) ==
    /\ Running(a)
    /\ pc[a] = "Dispatching"
    /\ CanSend
    /\ \E i \in 1..response.started : \E out \in ToolOutcomes :
           /\ response.results[i] = None
           /\ LET result == ToolService_call(response.tool_calls[i], out)
              IN  /\ response' = [response EXCEPT
                         !.results[i] = Some(result),
                         !.ends = Append(@, i),
                         !.failed = IF out.ok THEN @ ELSE @ \cup {i}]
                  /\ chan' = Append(chan, ToolCallEnd(a, result))
    /\ UNCHANGED <<config, current, pc, iterations, contexts, rounds, error, outcome,
                   exec, received, closed>>
    /\ UNCHANGED <<ctxVars, patchVars, storeVars, extVars>>

\* Step 5, every call has its result: the response is appended to the context
Reduce(a) ==
    /\ Running(a)
    /\ pc[a] = "Dispatching"
    /\ \A i \in 1..Len(response.tool_calls) : IsSome(response.results[i])
    /\ contexts' = [contexts EXCEPT ![a] =
           append_message(contexts[a], response.text, collect_records(response),
                          config.tool_supported)]
    /\ pc' = [pc EXCEPT ![a] = "Reduced"]
    /\ UNCHANGED <<config, current, iterations, response, rounds, error, outcome,
                   exec, chan, received, closed>>
    /\ UNCHANGED <<ctxVars, patchVars, storeVars, extVars>>

\* Step 5, loop to step 3 unless the safety bound is reached
NextIteration(a) ==
    /\ Running(a)
    /\ pc[a] = "Reduced"
    /\ IF loop_overflow(iterations[a])
       THEN /\ Fail(a, "OrchestratorLoopOverflow")
            /\ UNCHANGED <<iterations, response>>
       ELSE /\ pc' = [pc EXCEPT ![a] = "Streaming"]
            /\ iterations' = [iterations EXCEPT ![a] = @ + 1]
            /\ response' = NoResponse
            /\ UNCHANGED error
    /\ UNCHANGED <<config, current, contexts, rounds, outcome,
                   exec, chan, received, closed>>
    /\ UNCHANGED <<ctxVars, patchVars, storeVars, extVars>>

\* Step 6, wait = true: B's turn loop runs in the task that ran A's
Handover(a) ==
    /\ exec = "running"
    /\ outcome = None
    /\ current = a
    /\ pc[a] = "Done"
    /\ handover_pending(a)
    /\ current' = "B"
    /\ UNCHANGED <<config, pc, iterations, contexts, response, rounds, error, outcome,
                   exec, chan, received, closed>>
    /\ UNCHANGED <<ctxVars, patchVars, storeVars, extVars>>

\* Orchestrator::execute returns Ok: the running turn is Done, no handover is left
OrchestratorReturns ==
    /\ Running(current)
    /\ pc[current] = "Done"
    /\ ~handover_pending(current)
    /\ outcome' = Some([tag |-> "Ok", error |-> ""])
    /\ UNCHANGED <<config, current, pc, iterations, contexts, response, rounds, error,
                   exec, chan, received, closed>>
    /\ UNCHANGED <<ctxVars, patchVars, storeVars, extVars>>

\* Orchestrator::execute returns the fatal error of a failed turn
OrchestratorFails ==
    /\ Running(current)
    /\ pc[current] = "Failed"
    /\ outcome' = Some([tag |-> "Err", error |-> Unwrap(error)])
    /\ UNCHANGED <<config, current, pc, iterations, contexts, response, rounds, error,
                   exec, chan, received, closed>>
    /\ UNCHANGED <<ctxVars, patchVars, storeVars, extVars>>

\* ConcurrentWorkflow::execute, the spawned closure after orch.execute: the
\* match on its result, then the closure ends and the senders are dropped
ExecuteMatch ==
    /\ exec = "running"
    /\ IsSome(outcome)
    /\ Len(chan) + Len(execute_match(Unwrap(outcome))) <= ChannelCapacity
    /\ chan' = chan \o execute_match(Unwrap(outcome))
    /\ exec' = "finished"
    /\ UNCHANGED <<config, current, pc, iterations, contexts, response, rounds, error,
                   outcome, received, closed>>
    /\ UNCHANGED <<ctxVars, patchVars, storeVars, extVars>>

\* The caller polls the stream: the next buffered item
StreamNext ==
    /\ chan # <<>>
    /\ received' = yield(received, Head(chan))
    /\ chan' = Tail(chan)
    /\ UNCHANGED <<config, current, pc, iterations, contexts, response, rounds, error,
                   outcome, exec, closed>>
    /\ UNCHANGED <<ctxVars, patchVars, storeVars, extVars>>

\* The caller polls the stream: every sender is gone and nothing is buffered
StreamEnd ==
    /\ chan = <<>>
    /\ exec = "finished"
    /\ ~closed
    /\ closed' = TRUE
    /\ UNCHANGED <<config, current, pc, iterations, contexts, response, rounds, error,
                   outcome, exec, chan, received>>
    /\ UNCHANGED <<ctxVars, patchVars, storeVars, extVars>>

OrchStart(cfg) ==
    /\ config = cfg
    /\ current = "A"
    /\ pc = [a \in Agents |-> "Idle"]
    /\ iterations = [a \in Agents |-> 0]
    /\ contexts = [a \in Agents |-> <<>>]
    /\ response = NoResponse
    /\ rounds = 0
    /\ error = None
    /\ outcome = None
    /\ exec = "running"
    /\ chan = <<>>
    /\ received = NoneReceived
    /\ closed = FALSE

InitOrch ==
    /\ ExtIdle
    /\ ContextIdle
    /\ PatchIdle
    /\ StoreIdle
    /\ \E cfg \in Configs : OrchStart(cfg)

NextOrch ==
    \/ \E a \in Agents :
           \/ PrepareTurn(a)
           \/ TemplateFails(a)
           \/ CallProvider(a)
           \/ TextDelta(a)
           \/ FinishTurn(a)
           \/ FinishWithCalls(a)
           \/ ProviderError(a)
           \/ ToolStart(a)
           \/ ToolEnd(a)
           \/ Reduce(a)
           \/ NextIteration(a)
           \/ Handover(a)
    \/ OrchestratorReturns
    \/ OrchestratorFails
    \/ ExecuteMatch
    \/ StreamNext
    \/ StreamEnd

SpecOrch == InitOrch /\ [][NextOrch]_vars

(***************************************************************************)
(* ChatService::chat (forge_app/src/service/neo_chat.rs): the orchestrator *)
(* runs in the task that MpscStream::spawn starts; the caller's stream is  *)
(* stream.map(Ok).                                                         *)
(***************************************************************************)
\* if let Err(e) = orch.execute(&input).await { eprintln!(..) }: what the
\* closure sends for the result of execute
chat_if_let_err(result) == <<>>

\* stream.map(Ok)
map_Ok(item) == [item EXCEPT !.tag = "Ok"]

\* The spawned closure after orch.execute: the error, if any, is printed to
\* stderr, then the closure ends and the sender is dropped
ChatSpawned ==
    /\ exec = "running"
    /\ IsSome(outcome)
    /\ Len(chan) + Len(chat_if_let_err(Unwrap(outcome))) <= ChannelCapacity
    /\ chan' = chan \o chat_if_let_err(Unwrap(outcome))
    /\ exec' = "finished"
    /\ UNCHANGED <<config, current, pc, iterations, contexts, response, rounds, error,
                   outcome, received, closed>>
    /\ UNCHANGED <<ctxVars, patchVars, storeVars, extVars>>

\* The caller polls the stream chat returned: the next buffered item, in Ok
ChatStreamNext ==
    /\ chan # <<>>
    /\ received' = yield(received, map_Ok(Head(chan)))
    /\ chan' = Tail(chan)
    /\ UNCHANGED <<config, current, pc, iterations, contexts, response, rounds, error,
                   outcome, exec, closed>>
    /\ UNCHANGED <<ctxVars, patchVars, storeVars, extVars>>

NextChat ==
    \/ \E a \in Agents :
           \/ PrepareTurn(a)
           \/ TemplateFails(a)
           \/ CallProvider(a)
           \/ TextDelta(a)
           \/ FinishTurn(a)
           \/ FinishWithCalls(a)
           \/ ProviderError(a)
           \/ ToolStart(a)
           \/ ToolEnd(a)
           \/ Reduce(a)
           \/ NextIteration(a)
           \/ Handover(a)
    \/ OrchestratorReturns
    \/ OrchestratorFails
    \/ ChatSpawned
    \/ ChatStreamNext
    \/ StreamEnd

SpecChat == InitOrch /\ [][NextChat]_vars

\* One turn of the entry agent against the looping provider
InitLoop ==
    /\ ExtIdle
    /\ ContextIdle
    /\ PatchIdle
    /\ StoreIdle
    /\ OrchStart([tool_supported |-> TRUE, handover |-> FALSE, provider |-> "loop"])

NextLoop ==
    \/ PrepareTurn("A")
    \/ TemplateFails("A")
    \/ CallProvider("A")
    \/ FinishTurn("A")
    \/ FinishWithCalls("A")
    \/ ProviderError("A")
    \/ ToolStart("A")
    \/ ToolEnd("A")
    \/ Reduce("A")
    \/ NextIteration("A")
    \/ OrchestratorReturns
    \/ OrchestratorFails
    \/ ExecuteMatch
    \/ StreamNext
    \/ StreamEnd

\* The runtime keeps polling the tasks, the provider and the tools answer, and
\* the caller keeps reading its stream.
SpecLoop == InitLoop /\ [][NextLoop]_vars /\ WF_vars(NextLoop)

(***************************************************************************)
(* Properties of the Context specification                                 *)
(***************************************************************************)
IsSystem(m) == m.kind = "ContentMessage" /\ m.role = "System"

HoldsCall(m, id) ==
    /\ m.kind = "ContentMessage"
    /\ m.role = "Assistant"
    /\ IsSome(m.tool_calls)
    /\ \E k \in 1..Len(Unwrap(m.tool_calls)) : Unwrap(m.tool_calls)[k].call_id = Some(id)

ToolResultsPreceded(msgs) ==
    \A j \in 1..Len(msgs) :
        (msgs[j].kind = "ToolMessage" /\ IsSome(msgs[j].result.call_id))
            => \E i \in 1..(j - 1) : HoldsCall(msgs[i], Unwrap(msgs[j].result.call_id))

\* C2 (as claimed): in every context reachable through add_message,
\* add_tool_results, append_message and set_first_system_message, each tool
\* result with call_id = id is preceded by an assistant message whose
\* tool_calls contain a call with that id.
C2_EveryResultPreceded == ToolResultsPreceded(messages)

\* C2 (amended): the same, for the contexts whose tool results all came from
\* append_message with records whose result carries the name and call_id of
\* the record's own call, as ToolResult::from(call) makes it.
C2_DerivedResultsPreceded == derived => ToolResultsPreceded(messages)

C2_Witness ==
    /\ derived
    /\ Len(messages) = 3
    /\ IsSystem(messages[1])
    /\ messages[3].kind = "ToolMessage"
    /\ IsSome(messages[3].result.call_id)

\* C3: there is at most one system message, and if there is one it is the
\* first message of the context.
C3_SystemOnlyLeading ==
    \A i \in 1..Len(messages) : IsSystem(messages[i]) => i = 1

C3_Witness ==
    /\ last.op = "set_first_system_message"
    /\ last.pre # <<>>
    /\ ~IsSystem(last.pre[1])
    /\ Len(messages) = Len(last.pre) + 1
    /\ IsSystem(messages[1])

\* C4: after set_first_system_message(c) on any context the first message
\* is a system message with content c: a leading system message is
\* overwritten in place, otherwise one is inserted at index 0, and the other
\* messages keep their content and order.
C4_SystemMessageFirst ==
    last.op = "set_first_system_message" =>
        /\ messages # <<>>
        /\ messages[1] = system(last.arg)
        /\ IF last.pre # <<>> /\ IsSystem(last.pre[1])
           THEN messages = <<system(last.arg)>> \o Tail(last.pre)
           ELSE messages = <<system(last.arg)>> \o last.pre

(***************************************************************************)
(* Properties of the orchestrator specifications                           *)
(***************************************************************************)
Requested == response.tool_calls

ResultOf(i) == Unwrap(response.results[i])

\* The messages a Reduce step appends when the model supports tools
AssistantThenResults ==
    <<assistant(response.text, Some(Requested))>>
    \o [i \in 1..Len(Requested) |-> tool_result(ResultOf(i))]

\* The messages a Reduce step appends when the model does not support tools
AssistantThenUserText ==
    <<assistant(response.text, None),
      user(JoinRecords([i \in 1..Len(Requested) |->
                           ToolCallRecord(Requested[i], ResultOf(i))]))>>

ReduceStep(a) == pc[a] = "Dispatching" /\ pc'[a] = "Reduced"

\* C1, as stated: the Reduce step of a response with tool calls c1..cn
\* appends one assistant message listing c1..cn and then exactly n tool
\* results, the i-th being the result of ci.
C1_AssistantThenNResults ==
    [][\A a \in Agents :
          ReduceStep(a) => contexts'[a] = contexts[a] \o AssistantThenResults]_vars

\* C1, amended: when the model supports tools the Reduce step appends one
\* assistant message listing c1..cn and then the n results in request order;
\* when it does not, it appends an assistant message without calls and one
\* user message with the n records in request order.  What is appended does
\* not depend on the order of completion, which only the ToolCallEnd events
\* follow.
C1_RequestOrderInContext ==
    /\ [][\A a \in Agents :
             ReduceStep(a) =>
                 contexts'[a] = contexts[a] \o
                     (IF config.tool_supported
                      THEN AssistantThenResults
                      ELSE AssistantThenUserText)]_vars
    /\ [][Len(response'.ends) = Len(response.ends) + 1 =>
             LET i == response'.ends[Len(response'.ends)]
             IN  chan' = Append(chan, ToolCallEnd(current, Unwrap(response'.results[i])))]_vars

\* Two calls completed in the reverse of the request order and were reduced
C1_Witness ==
    /\ pc["A"] = "Reduced"
    /\ config.tool_supported
    /\ Len(Requested) = 2
    /\ response.ends = <<2, 1>>
    /\ contexts["A"][Len(contexts["A"]) - 1] = tool_result(ResultOf(1))
    /\ contexts["A"][Len(contexts["A"])] = tool_result(ResultOf(2))

\* The texts of the records, each after a blank line but the first
RECURSIVE BlankLineSeparated(_)
BlankLineSeparated(records) ==
    IF records = <<>> THEN ""
    ELSE ToolCallRecord_to_string(Head(records))
         \o (IF Tail(records) = <<>> THEN "" ELSE "\n\n" \o BlankLineSeparated(Tail(records)))

\* The messages the last call of append_message added to the context
Appended == SubSeq(messages, Len(last.pre) + 1, Len(messages))

\* C30: append_message leaves the earlier messages as they were and appends,
\* with tool_supported = true, one assistant message carrying the tool calls
\* followed by one tool-result message per record in record order; with
\* tool_supported = false, one assistant message without tool calls and, only
\* when there is a record, exactly one user message holding every record in
\* record order separated by a blank line, and no tool-result message.
C30_AppendByCapability ==
    last.op = "append_message" =>
        LET n == Len(last.records)
        IN  /\ Len(messages) >= Len(last.pre) + 1
            /\ SubSeq(messages, 1, Len(last.pre)) = last.pre
            /\ Appended[1].kind = "ContentMessage"
            /\ Appended[1].role = "Assistant"
            /\ Appended[1].content = last.arg
            /\ IF last.tool_supported
               THEN /\ Len(Appended) = 1 + n
                    /\ IF n = 0
                       THEN Appended[1].tool_calls = None
                       ELSE /\ IsSome(Appended[1].tool_calls)
                            /\ Len(Unwrap(Appended[1].tool_calls)) = n
                            /\ \A i \in 1..n :
                                 Unwrap(Appended[1].tool_calls)[i] = last.records[i].tool_call
                    /\ \A i \in 1..n :
                         /\ Appended[1 + i].kind = "ToolMessage"
                         /\ Appended[1 + i].result = last.records[i].tool_result
               ELSE /\ Appended[1].tool_calls = None
                    /\ Len(Appended) = IF n = 0 THEN 1 ELSE 2
                    /\ n > 0 =>
                         /\ Appended[2].kind = "ContentMessage"
                         /\ Appended[2].role = "User"
                         /\ Appended[2].tool_calls = None
                         /\ Appended[2].content = BlankLineSeparated(last.records)
                    /\ \A i \in 1..Len(Appended) : Appended[i].kind # "ToolMessage"

\* Two records were appended, for a model without tool support, to a context
\* that held a message
C30_Witness ==
    /\ last.op = "append_message"
    /\ last.pre # <<>>
    /\ Len(last.records) = 2
    /\ last.records[1] # last.records[2]
    /\ ~last.tool_supported

FatalErrors == {"Provider", "Template", "OrchestratorLoopOverflow"}

FailureContent == "\nERROR:\nCaused by: outer\nCaused by: inner\n"

C26_ChatYieldsError ==
    (closed /\ Unwrap(outcome).tag = "Err") => received.errs >= 1

\* C8: with the handover {agent: B, wait: true}, once A's turn is Done the
\* caller's stream does not end before B's turn has ended, and the caller
\* sees every event of B after every event of A, A's final text included.
C8_HandoverWaits ==
    /\ (closed /\ config.handover /\ pc["A"] = "Done") => pc["B"] \in {"Done", "Failed"}
    /\ \A i, j \in 1..Len(received.agents) :
           (received.agents[i] = "B" /\ received.agents[j] = "A") => j < i

\* The stream has ended after B's turn, B's events behind A's final text
C8_Witness ==
    /\ closed
    /\ config.handover
    /\ pc["A"] = "Done"
    /\ pc["B"] = "Done"
    /\ received.agents = <<"A", "B">>
    /\ received.last = Some(Text("B", "", TRUE))

Terminated(a) == pc[a] \in {"Done", "Failed"}

TextPaths == {TxtPath, NoExtPath}
ImagePaths == {PngPath, SpacePath}

\* The paths the user mentioned as @path
PlainMentions == {typed[i].text : i \in {j \in 1..Len(typed) : typed[j].kind = "mention"}}

\* The paths the user mentioned as @"path"
QuotedMentions == {typed[i].text : i \in {j \in 1..Len(typed) : typed[j].kind = "quoted"}}

Readable(p) == IsSome(files[p])

ImageTypeOf(p) == IF p = PngPath THEN "Png" ELSE "Jpeg"

\* <file path="p">
OpenTag(p) == <<60, 102, 105, 108, 101, 32, 112, 97, 116, 104, 61, 34>> \o p \o <<34, 62>>

\* <file path="p">content</file> with the content of p
FileElement(p) == OpenTag(p) \o Unwrap(files[p]) \o <<60, 47, 102, 105, 108, 101, 62>>

RECURSIVE Elements(_)
Elements(ps) == IF ps = <<>> THEN <<>> ELSE FileElement(Head(ps)) \o Elements(Tail(ps))

\* C17: attachments() partitions the readable @path mentions: the files that
\* are not images are appended to the message as <file path="p">content</file>,
\* each once, after the original text, and are not in the returned set; the
\* image files are in the returned set, base64-encoded and typed, and add
\* nothing to the message.  The exact content of the result is stated for the
\* messages without a quoted mention.
C17_MentionsPartitioned ==
    IsSome(attached) =>
        LET r == Unwrap(attached)
            texts == {p \in PlainMentions \cap TextPaths : Readable(p)}
            images == {p \in PlainMentions \cap ImagePaths : Readable(p)}
        IN  /\ \A a \in r.attachments : a.content_type # "Text"
            /\ SubSeq(r.message, 1, Len(chat)) = chat
            /\ \A p \in images :
                 Attachment(base64_encode(Unwrap(files[p])), p, ImageTypeOf(p)) \in r.attachments
            /\ \A p \in texts : Occurs(r.message, FileElement(p))
            /\ QuotedMentions = {} =>
                 /\ \A a \in r.attachments : a.path \in images
                 /\ \E order \in Orders(texts) : r.message = chat \o Elements(order)

\* A text file and an image file (content "hi", base64 "aGk=") were mentioned
\* and read: one went into the message, the other into the set.
C17_Witness ==
    /\ IsSome(attached)
    /\ PlainMentions = {TxtPath, PngPath}
    /\ files[PngPath] = Some(<<104, 105>>)
    /\ Readable(TxtPath)
    /\ Unwrap(attached).attachments = {Attachment(<<97, 71, 107, 61>>, PngPath, "Png")}
    /\ Unwrap(attached).message = chat \o FileElement(TxtPath)

\* C18: a mention whose file cannot be read is ignored: attachments() returns
\* Ok, the mention adds nothing to the message and gives no attachment, and
\* the readable mentions of the same message are still processed.
C18_UnreadableIgnored ==
    IsSome(attached) =>
        LET r == Unwrap(attached)
        IN  /\ r.ok
            /\ \A p \in PlainMentions :
                 ~Readable(p) =>
                    /\ \A a \in r.attachments : a.path # p
                    /\ ~Occurs(r.message, OpenTag(p))
            /\ (QuotedMentions = {} /\ \A p \in PlainMentions : ~Readable(p)) =>
                    (r.message = chat /\ r.attachments = {})
            /\ \A q \in PlainMentions :
                 Readable(q) =>
                    IF q \in TextPaths THEN Occurs(r.message, FileElement(q))
                    ELSE \E a \in r.attachments : a.path = q

\* An unreadable mention next to a readable one: only the readable one shows.
C18_Witness ==
    /\ IsSome(attached)
    /\ PlainMentions = {TxtPath, NoExtPath}
    /\ ~Readable(TxtPath)
    /\ Readable(NoExtPath)
    /\ Unwrap(attached).message = chat \o FileElement(NoExtPath)
    /\ Unwrap(attached).attachments = {}

\* C19: a mention @"path" of a readable path with spaces gives one attachment
\* whose path is the unquoted path, and a message that is otherwise only
\* plain words is returned unchanged.
C19_QuotedPathResolved ==
    (IsSome(attached) /\ QuotedMentions = {SpacePath} /\ PlainMentions = {}
        /\ Readable(SpacePath))
    => /\ Unwrap(attached).message = chat
       /\ Unwrap(attached).attachments =
              {Attachment(base64_encode(Unwrap(files[SpacePath])), SpacePath, "Jpeg")}

(***************************************************************************)
(* Properties of the UI specification                                      *)
(***************************************************************************)
\* The user messages sent in the e-th conversation the UI opened
TaskEventsOf(e) ==
    {i \in 1..Len(sent) : sent[i].epoch = e /\ sent[i].event \notin {CustomEvent, Compaction, Dump}}

InitEventsOf(e) == {i \in TaskEventsOf(e) : sent[i].event[2] = EVENT_USER_TASK_INIT}

UpdateEventsOf(e) == {i \in TaskEventsOf(e) : sent[i].event[2] = EVENT_USER_TASK_UPDATE}

\* C20: in every conversation the UI opens, the first user message is sent
\* as <mode>/user_task_init and every later one as <mode>/user_task_update,
\* whatever custom events and failed requests come in between: at most one
\* init event is sent, exactly one once a user message has been sent, and it
\* comes before every update event.  A conversation that is not loaded from
\* a file has an id of its own.
C20_OneInitThenUpdates ==
    /\ \A e \in 1..MaxConversations :
         /\ Cardinality(InitEventsOf(e)) <= 1
         /\ TaskEventsOf(e) # {} => Cardinality(InitEventsOf(e)) = 1
         /\ TaskEventsOf(e) = InitEventsOf(e) \cup UpdateEventsOf(e)
         /\ \A i \in UpdateEventsOf(e) : \E j \in InitEventsOf(e) : j < i
         /\ \A i, j \in TaskEventsOf(e) : sent[i].event[1] = sent[j].event[1]
    /\ \A i \in 1..Len(sent) :
         /\ sent[i].epoch \in 1..MaxConversations
         /\ ~cli.conversation => sent[i].conversation_id = sent[i].epoch

\* A first message whose request failed, a custom event, then a second
\* message, all in one conversation.
C20_Witness ==
    /\ Len(sent) = 3
    /\ sent[1].event = <<"act", EVENT_USER_TASK_INIT>> /\ ~sent[1].ok
    /\ sent[2].event = CustomEvent
    /\ sent[3].event = <<"act", EVENT_USER_TASK_UPDATE>>
    /\ sent[1].epoch = sent[3].epoch /\ sent[2].epoch = sent[3].epoch

\* The commands that reset the UI state
Resets == {"new", "mode"}

\* C27: the conversation the UI holds after /new, /act or /plan is a newly
\* created one, with an id that no earlier conversation of the session had,
\* however the session was started.
C27_ResetOpensNewConversation ==
    \A i \in 1..Len(held) :
        held[i].by \in Resets =>
            /\ held[i].created
            /\ \A j \in 1..(i - 1) : held[j].id # held[i].id

\* C28: init_conversation opens a conversation only when the state holds
\* none, so every opening but the first comes after a reset, and every chat
\* request, custom event, compaction and dump carries the id of the
\* conversation opened last, which the state holds until the next reset.
C28_OneConversationBetweenResets ==
    /\ epoch = Len(held)
    /\ \A i \in 2..Len(held) : held[i].after_reset
    /\ \A i \in 1..Len(sent) :
         /\ sent[i].epoch \in 1..Len(held)
         /\ sent[i].conversation_id = held[sent[i].epoch].id
    /\ \A i, j \in 1..Len(sent) :
         (i < j /\ sent[i].epoch # sent[j].epoch) => held[sent[j].epoch].after_reset
    /\ IsSome(ui_state.conversation_id) =>
         (epoch >= 1 /\ Unwrap(ui_state.conversation_id) = held[epoch].id)

\* After a reset: a message, a compaction and a dump, all on the second
\* conversation of the session.
C28_Witness ==
    /\ Len(held) = 2
    /\ held[2].by = "new"
    /\ Len(sent) = 3
    /\ sent[1].event[2] = EVENT_USER_TASK_INIT
    /\ sent[2].event = Compaction
    /\ sent[3].event = Dump
    /\ \A i \in 1..3 : sent[i].epoch = 2 /\ sent[i].conversation_id = held[2].id


(***************************************************************************)
(* ProviderService (forge_app/src/service/provider.rs): parameters through *)
(* a cache of CACHE_CAPACITY entries keyed by model id, chat and models    *)
(* handed to the upstream provider.  The cache holds the entries of the    *)
(* model ids followed here and a number of entries of other model ids.     *)
(***************************************************************************)
CACHE_CAPACITY == 1024

Parameters == {"p1", "p2"}

\* What the upstream provider answers: Ok(value) or an error
Answered(value) == [ok |-> TRUE, value |-> value]
Failed == [ok |-> FALSE, value |-> ""]
Answers == {Answered(p) : p \in Parameters} \cup {Failed}

\* The entries the cache holds
Cached(c) == {id \in ModelIds : IsSome(c[id])}
Size(c, n) == Cardinality(Cached(c)) + n

\* A mutant of cache_get: no entry is ever found.
cache_get_misses(c, id) == None

\* The lookup of try_get_with_by_ref(model, init)
cache_get(c, id) == c[id]

\* The insert of try_get_with_by_ref after init returned Ok(p): the entry is
\* stored, and when the cache is over its capacity an entry that is not the
\* new one is evicted.  victims: the followed model ids evicted.
cache_insert(c, n, id, p) ==
    LET stored == [c EXCEPT ![id] = Some(p)]
    IN  IF Size(stored, n) <= CACHE_CAPACITY
        THEN {[cache |-> stored, others |-> n, victims |-> {}]}
        ELSE {[cache |-> [stored EXCEPT ![v] = None], others |-> n, victims |-> {v}]
                 : v \in Cached(stored) \ {id}}
             \cup (IF n > 0 THEN {[cache |-> stored, others |-> n - 1, victims |-> {}]}
                            ELSE {})

\* Another call has the init future of this model id running
InFlight(t, id) ==
    \E u \in Tasks \ {t} :
        ptasks[u].pc = "asking" /\ ptasks[u].fn = "parameters" /\ ptasks[u].model = id

\* Live::parameters, up to the first await that does not resolve at once: a
\* cached entry is returned; else the call waits for the init future of
\* another call for the same model, or runs its own, which asks the upstream
ParametersCall(t) ==
    /\ ptasks[t].pc = "idle"
    /\ ptasks[t].calls < MaxCalls
    /\ \E id \in ModelIds :
         LET found == cache_get(pcache, id)
             began == [NoProviderCall EXCEPT !.fn = "parameters", !.model = id,
                                             !.calls = ptasks[t].calls + 1]
         IN  IF IsSome(found)
             THEN /\ ptasks' = [ptasks EXCEPT ![t] =
                                    [began EXCEPT !.hit = TRUE,
                                                  !.ret = Some(Answered(Unwrap(found)))]]
                  /\ UNCHANGED pstats
             ELSE IF InFlight(t, id)
             THEN /\ ptasks' = [ptasks EXCEPT ![t] = [began EXCEPT !.pc = "waiting"]]
                  /\ UNCHANGED pstats
             ELSE /\ ptasks' = [ptasks EXCEPT ![t] = [began EXCEPT !.pc = "asking", !.asked = 1]]
                  /\ pstats' = [pstats EXCEPT ![id].again = @ \/ IsSome(pstats[id].first)]
    /\ UNCHANGED <<pcache, others>>
    /\ UNCHANGED <<ctxVars, patchVars, storeVars, orchVars, toolVars, attVars, uiVars>>
    /\ UNCHANGED <<consoleVars, configVars, serdeVars>>

\* self.provider.parameters(model) resolves: Ok is stored and returned, to
\* the calls waiting for it too; Err is returned and nothing is stored
ParametersAnswered(t) ==
    /\ ptasks[t].pc = "asking"
    /\ ptasks[t].fn = "parameters"
    /\ \E r \in Answers :
         LET id == ptasks[t].model
         IN  /\ IF r.ok
                THEN \E ins \in cache_insert(pcache, others, id, r.value) :
                       /\ pcache' = ins.cache
                       /\ others' = ins.others
                       /\ pstats' = [k \in ModelIds |->
                              [first |-> IF k = id /\ pstats[k].first = None
                                         THEN Some(r.value) ELSE pstats[k].first,
                               again |-> pstats[k].again,
                               evicted |-> pstats[k].evicted \/ k \in ins.victims]]
                ELSE UNCHANGED <<pcache, others, pstats>>
             /\ ptasks' = [u \in Tasks |->
                    IF u = t \/ (ptasks[u].pc = "waiting" /\ ptasks[u].model = id)
                    THEN [ptasks[u] EXCEPT !.pc = "idle", !.ret = Some(r)]
                    ELSE ptasks[u]]
    /\ UNCHANGED <<ctxVars, patchVars, storeVars, orchVars, toolVars, attVars, uiVars>>
    /\ UNCHANGED <<consoleVars, configVars, serdeVars>>

\* Live::chat and Live::models: self.provider.chat(..) / self.provider.models()
PassedThrough(t) ==
    /\ ptasks[t].pc = "idle"
    /\ ptasks[t].calls < MaxCalls
    /\ \E fn \in {"chat", "models"}, r \in Answers :
         ptasks' = [ptasks EXCEPT ![t] =
                       [NoProviderCall EXCEPT !.fn = fn, !.asked = 1, !.ret = Some(r),
                                              !.calls = ptasks[t].calls + 1]]
    /\ UNCHANGED <<pcache, others, pstats>>
    /\ UNCHANGED <<ctxVars, patchVars, storeVars, orchVars, toolVars, attVars, uiVars>>
    /\ UNCHANGED <<consoleVars, configVars, serdeVars>>

\* A service that has cached nothing yet, or the parameters of other models
\* up to its capacity
InitProvider ==
    /\ ContextIdle
    /\ PatchIdle
    /\ StoreIdle
    /\ OrchIdle
    /\ ToolIdle
    /\ AttachmentsIdle
    /\ UIIdle
    /\ ConsoleIdle
    /\ ConfigIdle
    /\ SerdeIdle
    /\ pcache = [id \in ModelIds |-> None]
    /\ others \in {0, CACHE_CAPACITY - 1, CACHE_CAPACITY}
    /\ ptasks = [t \in Tasks |-> NoProviderCall]
    /\ pstats = [id \in ModelIds |-> [first |-> None, again |-> FALSE, evicted |-> FALSE]]

NextProvider ==
    \E t \in Tasks :
        \/ ParametersCall(t)
        \/ ParametersAnswered(t)
        \/ PassedThrough(t)

SpecProvider == InitProvider /\ [][NextProvider]_vars

\* The calls of parameters for a model id that returned Ok
ReturnedOk(id) ==
    {t \in Tasks : /\ ptasks[t].fn = "parameters"
                   /\ ptasks[t].model = id
                   /\ IsSome(ptasks[t].ret)
                   /\ Unwrap(ptasks[t].ret).ok}

\* chat and models ask the upstream once and take nothing from the cache
PassThrough ==
    \A t \in Tasks :
        ptasks[t].fn \in {"chat", "models"} => (ptasks[t].asked = 1 /\ ~ptasks[t].hit)

\* While the model's entry is kept: the upstream was asked for it once, and
\* every call that returned Ok returned the Parameters of the first
Memoized(id) ==
    /\ ~pstats[id].again
    /\ \A t \in ReturnedOk(id) : Some(Unwrap(ptasks[t].ret).value) = pstats[id].first

\* C21 (as claimed): parameters is memoized per model id: after one call
\* for a model has succeeded every later call for it, concurrent ones
\* included, returns the same Parameters and the upstream is not asked
\* again; the cache holds at most 1024 models; chat and models are passed
\* through.
C21_MemoizedPerModel ==
    /\ Size(pcache, others) <= CACHE_CAPACITY
    /\ \A id \in ModelIds : Memoized(id)
    /\ PassThrough

\* C21 (amended): the same, for a model whose entry has not been evicted
\* since its first successful call.
C21_MemoizedWhileCached ==
    /\ Size(pcache, others) <= CACHE_CAPACITY
    /\ \A id \in ModelIds : ~pstats[id].evicted => Memoized(id)
    /\ PassThrough

\* In a full cache, a call found the entry another call had stored, and
\* chat was passed through
C21_Witness ==
    /\ Size(pcache, others) = CACHE_CAPACITY
    /\ \E t \in Tasks : \E u \in Tasks \ {t} :
           /\ ptasks[t].fn = "parameters"
           /\ ptasks[t].hit
           /\ ptasks[t].calls = 2
           /\ ptasks[u].fn = "chat"
           /\ ptasks[u].calls = 2
           /\ ~pstats[ptasks[t].model].evicted
           /\ ptasks[t].ret = Some(Answered("p2"))


(***************************************************************************)
(* The console (forge_main/src/model.rs): Command::parse.  A line is a     *)
(* sequence of bytes; the lines entered are words separated by one space,  *)
(* with or without a space before and after.                               *)
(***************************************************************************)
CMD_NEW == <<47, 110, 101, 119>>                        \* /new
CMD_INFO == <<47, 105, 110, 102, 111>>                  \* /info
CMD_EXIT == <<47, 101, 120, 105, 116>>                  \* /exit
CMD_MODELS == <<47, 109, 111, 100, 101, 108, 115>>      \* /models
CMD_ATTACH == <<47, 97, 116, 116, 97, 99, 104>>         \* /attach

LineWords ==
    {CMD_NEW, CMD_INFO, CMD_EXIT, CMD_MODELS, CMD_ATTACH, PngPath,
     CMD_ATTACH \o <<120>>,                              \* /attachx
     <<47, 102, 111, 111>>,                          \* /foo
     <<104, 105>>}                                   \* hi

RECURSIVE JoinWords(_)
JoinWords(ws) ==
    IF ws = <<>> THEN <<>>
    ELSE IF Len(ws) = 1 THEN ws[1]
    ELSE ws[1] \o <<SPACE>> \o JoinWords(Tail(ws))

Lines ==
    UNION {{pre \o JoinWords(ws) \o post : pre \in {<<>>, <<SPACE>>}, post \in {<<>>, <<SPACE>>}}
           : ws \in UNION {[1..k -> LineWords] : k \in 0..MaxLineWords}}

\* str::trim
RECURSIVE trim(_)
trim(s) ==
    IF s = <<>> THEN s
    ELSE IF Head(s) = SPACE THEN trim(Tail(s))
    ELSE IF s[Len(s)] = SPACE THEN trim(SubSeq(s, 1, Len(s) - 1))
    ELSE s

\* str::starts_with
starts_with(s, prefix) == Len(s) >= Len(prefix) /\ SubSeq(s, 1, Len(prefix)) = prefix

\* str::split_whitespace: the words between runs of whitespace, none empty
RECURSIVE split_whitespace(_)
split_whitespace(s) ==
    IF s = <<>> THEN <<>>
    ELSE IF Head(s) = SPACE THEN split_whitespace(Tail(s))
    ELSE LET spaces == {i \in 1..Len(s) : s[i] = SPACE}
             stop == IF spaces = {} THEN Len(s) + 1
                     ELSE CHOOSE i \in spaces : \A j \in spaces : i <= j
         IN  <<SubSeq(s, 1, stop - 1)>> \o split_whitespace(SubSeq(s, stop, Len(s)))

\* enum Command
Command(kind, text, paths) == [kind |-> kind, text |-> text, paths |-> paths]

\* Iterator::skip(1)
skip1(ws) == IF ws = <<>> THEN ws ELSE Tail(ws)

\* Command::parse_attach; the filter, ends_with(""), keeps every word
parse_attach(input) == Command("Attach", <<>>, skip1(split_whitespace(input)))

\* Command::parse
parse(input) ==
    LET trimmed == trim(input)
    IN  CASE trimmed = CMD_NEW -> Command("New", <<>>, <<>>)
          [] trimmed = CMD_INFO -> Command("Info", <<>>, <<>>)
          [] trimmed = CMD_EXIT -> Command("Exit", <<>>, <<>>)
          [] trimmed = CMD_MODELS -> Command("Models", <<>>, <<>>)
          [] trimmed \notin {CMD_NEW, CMD_INFO, CMD_EXIT, CMD_MODELS} /\ starts_with(trimmed, CMD_ATTACH) ->
                 parse_attach(trimmed)
          [] OTHER -> Command("Message", trimmed, <<>>)

\* Console::prompt: Command::parse is applied to the line the user entered
Prompt ==
    /\ console_cmd = None
    /\ console_cmd' = Some(parse(console_line))
    /\ UNCHANGED console_line
    /\ UNCHANGED <<ctxVars, patchVars, storeVars, orchVars, toolVars, attVars, uiVars>>
    /\ UNCHANGED <<provVars, configVars, serdeVars>>

InitConsole ==
    /\ ContextIdle
    /\ PatchIdle
    /\ StoreIdle
    /\ OrchIdle
    /\ ToolIdle
    /\ AttachmentsIdle
    /\ UIIdle
    /\ ProviderIdle
    /\ ConfigIdle
    /\ SerdeIdle
    /\ console_line \in Lines
    /\ console_cmd = None

NextConsole == Prompt

SpecConsole == InitConsole /\ [][NextConsole]_vars

\* The classification the documentation gives: the four commands, /attach
\* followed by paths, a message for what does not start with a slash, and
\* anything else rejected
Documented(trimmed) ==
    LET ws == split_whitespace(trimmed)
    IN  CASE trimmed = CMD_NEW -> Command("New", <<>>, <<>>)
          [] trimmed = CMD_INFO -> Command("Info", <<>>, <<>>)
          [] trimmed = CMD_EXIT -> Command("Exit", <<>>, <<>>)
          [] trimmed = CMD_MODELS -> Command("Models", <<>>, <<>>)
          [] ws # <<>> /\ ws[1] = CMD_ATTACH -> Command("Attach", <<>>, Tail(ws))
          [] trimmed = <<>> \/ (trimmed # <<>> /\ trimmed[1] # SLASH) ->
                 Command("Message", trimmed, <<>>)
          [] OTHER -> Command("Invalid", <<>>, <<>>)

\* C24: Command::parse classifies every trimmed input as documented: /new,
\* /info, /exit and /models give those commands, /attach followed by paths
\* gives Attach with those paths, an input that does not start with a slash
\* gives Message with the trimmed text, and any other input that starts
\* with a slash is rejected as an invalid command.
C24_ParsedAsDocumented ==
    IsSome(console_cmd) => Unwrap(console_cmd) = Documented(trim(console_line))


(***************************************************************************)
(* The configuration (forge_main/src/config.rs).  Keys are strings, value  *)
(* texts are sequences of bytes; a u32 is held as its decimal digits,      *)
(* without leading zeros.                                                  *)
(***************************************************************************)
KeyStrings == {"primary-model", "secondary-model", "tool-timeout", "invalid-key"}

U32_MAX == <<52, 50, 57, 52, 57, 54, 55, 50, 57, 53>>       \* 4294967295

ValueTexts ==
    {<<>>, <<SPACE>>, <<109>>, <<SPACE, 109>>,               \* "", " ", "m", " m"
     <<48>>, <<49>>, <<48, 49>>, <<48, 48>>,                 \* "0", "1", "01", "00"
     <<43, 49>>, <<45, 49>>,                                 \* "+1", "-1"
     U32_MAX,
     <<52, 50, 57, 52, 57, 54, 55, 50, 57, 54>>}             \* 4294967296

\* ConfigKey::from_str
ConfigKey_from_str(s) ==
    CASE s = "primary-model" -> Some("PrimaryModel")
      [] s = "secondary-model" -> Some("SecondaryModel")
      [] s = "tool-timeout" -> Some("ToolTimeout")
      [] OTHER -> None

IsDigit(b) == b \in 48..57

\* The digits without their leading zeros; one zero is left of a run of zeros
RECURSIVE strip_zeros(_)
strip_zeros(ds) == IF Len(ds) > 1 /\ Head(ds) = 48 THEN strip_zeros(Tail(ds)) ELSE ds

\* a <= b for two runs of digits of the same length
RECURSIVE digits_leq(_, _)
digits_leq(a, b) ==
    IF a = <<>> THEN TRUE
    ELSE IF Head(a) # Head(b) THEN Head(a) < Head(b)
    ELSE digits_leq(Tail(a), Tail(b))

\* str::parse::<u32>: an optional plus sign, then digits, one at least, of a
\* number that fits 32 bits; None for Err
parse_u32(s) ==
    LET ds == IF s # <<>> /\ Head(s) = 43 THEN Tail(s) ELSE s
        n == strip_zeros(ds)
    IN  IF ds = <<>> \/ \E k \in 1..Len(ds) : ~IsDigit(ds[k]) THEN None
        ELSE IF Len(n) > Len(U32_MAX) \/ (Len(n) = Len(U32_MAX) /\ ~digits_leq(n, U32_MAX))
        THEN None
        ELSE Some(n)

Model(text) == [kind |-> "Model", text |-> text]
ToolTimeout(n) == [kind |-> "ToolTimeout", text |-> n]

\* ConfigValue::as_str: the model name, or timeout.to_string()
ConfigValue_as_str(v) == v.text

\* A mutant of from_key_value: a tool timeout of 0 is accepted.
from_key_value_accepts_zero(k, text) ==
    IF k \in {"PrimaryModel", "SecondaryModel"}
    THEN IF trim(text) = <<>> THEN None ELSE Some(Model(text))
    ELSE IF IsSome(parse_u32(text)) THEN Some(ToolTimeout(Unwrap(parse_u32(text)))) ELSE None

\* ConfigValue::from_key_value: Some(value) for Ok, None for Err
from_key_value(k, text) ==
    IF k \in {"PrimaryModel", "SecondaryModel"}
    THEN IF trim(text) = <<>> THEN None ELSE Some(Model(text))
    ELSE LET n == parse_u32(text)
         IN  IF n = Some(<<48>>) THEN None
             ELSE IF IsSome(n) THEN Some(ToolTimeout(Unwrap(n)))
             ELSE None

\* Config::get
Config_get(vals, s) ==
    LET k == ConfigKey_from_str(s)
    IN  IF IsSome(k) /\ IsSome(vals[Unwrap(k)])
        THEN Some(ConfigValue_as_str(Unwrap(vals[Unwrap(k)])))
        ELSE None

\* Config::insert: the values after it and whether it returned Ok
Config_insert(vals, s, text) ==
    LET k == ConfigKey_from_str(s)
    IN  IF ~IsSome(k) THEN [ok |-> FALSE, values |-> vals]
        ELSE LET v == from_key_value(Unwrap(k), text)
             IN  IF ~IsSome(v) THEN [ok |-> FALSE, values |-> vals]
                 ELSE [ok |-> TRUE, values |-> [vals EXCEPT ![Unwrap(k)] = v]]

\* A call of Config::insert
Insert ==
    /\ \E s \in KeyStrings, text \in ValueTexts :
         LET r == Config_insert(config_values, s, text)
         IN  /\ config_values' = r.values
             /\ config_call' = Some([key |-> s, value |-> text, ok |-> r.ok,
                                     unchanged |-> r.values = config_values])
             /\ config_latest' = IF r.ok
                                 THEN [config_latest EXCEPT ![Unwrap(ConfigKey_from_str(s))] =
                                          Some(text)]
                                 ELSE config_latest
    /\ UNCHANGED <<ctxVars, patchVars, storeVars, orchVars, toolVars, attVars, uiVars>>
    /\ UNCHANGED <<provVars, consoleVars, serdeVars>>

\* Config::default()
InitConfig ==
    /\ ContextIdle
    /\ PatchIdle
    /\ StoreIdle
    /\ OrchIdle
    /\ ToolIdle
    /\ AttachmentsIdle
    /\ UIIdle
    /\ ProviderIdle
    /\ ConsoleIdle
    /\ SerdeIdle
    /\ ConfigIdle

NextConfig == Insert

SpecConfig == InitConfig /\ [][NextConfig]_vars

KeyOf(k) ==
    CASE k = "PrimaryModel" -> "primary-model"
      [] k = "SecondaryModel" -> "secondary-model"
      [] k = "ToolTimeout" -> "tool-timeout"

\* The pairs the claim calls valid: a model key with a name that is not
\* blank, tool-timeout with a text that parses as an integer greater than 0
ValidPair(s, text) ==
    \/ s \in {"primary-model", "secondary-model"} /\ trim(text) # <<>>
    \/ s = "tool-timeout" /\ IsSome(parse_u32(text)) /\ parse_u32(text) # Some(<<48>>)

\* insert stores a valid pair; for any other it returns an error and
\* leaves the configuration as it was
InsertChecked ==
    IsSome(config_call) =>
        LET c == Unwrap(config_call)
        IN  IF ValidPair(c.key, c.value)
            THEN c.ok /\ IsSome(Config_get(config_values, c.key))
            ELSE ~c.ok /\ c.unchanged

\* tool-timeout is at least 1 and no model entry is blank
EntriesValid ==
    /\ Config_get(config_values, "tool-timeout") # Some(<<48>>)
    /\ \A s \in {"primary-model", "secondary-model"} :
           IsSome(Config_get(config_values, s)) => trim(Unwrap(Config_get(config_values, s))) # <<>>

\* C23 (as claimed): insert stores the value only for a valid key and a
\* value valid for it, and otherwise returns an error and leaves the
\* configuration unchanged; so tool-timeout is at least 1, every model entry
\* is non-blank, and get(key) returns the last value successfully inserted
\* for that key.
C23_GetReturnsInserted ==
    /\ InsertChecked
    /\ EntriesValid
    /\ \A k \in ConfigKeys :
           IsSome(config_latest[k]) => Config_get(config_values, KeyOf(k)) = config_latest[k]

\* C23 (amended): the same, get(tool-timeout) returning the decimal digits
\* of the number last inserted, without sign and without leading zeros.
C23_GetReturnsStored ==
    /\ InsertChecked
    /\ EntriesValid
    /\ \A k \in ConfigKeys :
           IsSome(config_latest[k]) =>
               LET got == Config_get(config_values, KeyOf(k))
               IN  IF k = "ToolTimeout"
                   THEN /\ IsSome(got)
                        /\ Unwrap(got) # <<>>
                        /\ \A i \in 1..Len(Unwrap(got)) : IsDigit(Unwrap(got)[i])
                        /\ Unwrap(got)[1] # 48
                        /\ parse_u32(Unwrap(got)) = parse_u32(Unwrap(config_latest[k]))
                   ELSE got = config_latest[k]

\* tool-timeout was set to "01" and a later insert of "0" was refused
C23_Witness ==
    /\ IsSome(config_call)
    /\ Unwrap(config_call).key = "tool-timeout"
    /\ Unwrap(config_call).value = <<48>>
    /\ ~Unwrap(config_call).ok
    /\ config_latest["ToolTimeout"] = Some(<<48, 49>>)
    /\ Config_get(config_values, "tool-timeout") = Some(<<49>>)
    /\ Config_get(config_values, "primary-model") = Some(<<SPACE, 109>>)


(***************************************************************************)
(* Workflow files (forge_domain/src/workflow.rs): the derived Serialize    *)
(* and Deserialize of Workflow.  The serialized form is the map it         *)
(* describes: per field of Workflow, absent (None) or present with a value.*)
(***************************************************************************)
\* HashMap / Variables: the maps from some of the keys to the values
Maps(keys, vals) == UNION {[S -> vals] : S \in SUBSET keys}

\* HashMap::is_empty / Variables::is_empty
is_empty(map) == DOMAIN map = {}

Workflow(agents, state, variables) ==
    [agents |-> agents, state |-> state, variables |-> variables]

Workflows ==
    {Workflow(agents, state, variables) :
        agents \in {<<>>, <<"A">>, <<"A", "B">>},
        state \in Maps(Agents, StoredContexts),
        variables \in Maps(VariableNames, Values)}

\* #[serde(skip_serializing_if = ..)]: the field is left out when the test holds
skip_serializing_if(skip, field) == IF skip THEN None ELSE Some(field)

\* #[derive(Serialize)] for Workflow
serialize(w) ==
    [agents |-> Some(w.agents),
     state |-> skip_serializing_if(is_empty(w.state), w.state),
     variables |-> skip_serializing_if(is_empty(w.variables), w.variables)]

\* #[derive(Deserialize)] for Workflow: no field has #[serde(default)], so
\* each must be present
deserialize(text) ==
    IF \E f \in {"agents", "state", "variables"} : text[f] = None
    THEN [ok |-> FALSE, workflow |-> None]
    ELSE [ok |-> TRUE,
          workflow |-> Some(Workflow(Unwrap(text.agents), Unwrap(text.state),
                                     Unwrap(text.variables)))]

\* The workflow is serialized
Serialize ==
    /\ IsSome(serde_wf)
    /\ serde_text = None
    /\ serde_text' = Some(serialize(Unwrap(serde_wf)))
    /\ UNCHANGED <<serde_wf, serde_back>>
    /\ UNCHANGED <<ctxVars, patchVars, storeVars, orchVars, toolVars, attVars, uiVars>>
    /\ UNCHANGED <<provVars, consoleVars, configVars>>

\* The serialized form is loaded
Load ==
    /\ IsSome(serde_text)
    /\ serde_back = None
    /\ serde_back' = Some(deserialize(Unwrap(serde_text)))
    /\ UNCHANGED <<serde_wf, serde_text>>
    /\ UNCHANGED <<ctxVars, patchVars, storeVars, orchVars, toolVars, attVars, uiVars>>
    /\ UNCHANGED <<provVars, consoleVars, configVars>>

InitSerde ==
    /\ ContextIdle
    /\ PatchIdle
    /\ StoreIdle
    /\ OrchIdle
    /\ ToolIdle
    /\ AttachmentsIdle
    /\ UIIdle
    /\ ProviderIdle
    /\ ConsoleIdle
    /\ ConfigIdle
    /\ serde_wf \in {Some(w) : w \in Workflows}
    /\ serde_text = None
    /\ serde_back = None

NextSerde ==
    \/ Serialize
    \/ Load

SpecSerde == InitSerde /\ [][NextSerde]_vars

\* C22: serializing any Workflow and loading the result gives back an equal
\* Workflow, also when its state map or its variables are empty and are
\* left out of the serialized form.
C22_RoundTrip ==
    IsSome(serde_back) =>
        /\ Unwrap(serde_back).ok
        /\ Unwrap(serde_back).workflow = serde_wf

====
